---- MODULE Spec2Model ----
(***************************************************************************)
(* ThermalAI front end and edge functions (jluque-app/thermal-ai).         *)
(*                                                                         *)
(* The repository holds the React pages, the AuthProvider and the two Deno *)
(* functions that sit in front of the analysis backend.  Each component is *)
(* a state machine of its own; they share the module's variables and each  *)
(* has its own specification (SpecNewAnalysis, SpecProxy, ...) in which    *)
(* the other components stay in their initial state.                       *)
(*                                                                         *)
(* JavaScript values: a string is a TLA+ string and is falsy exactly when  *)
(* it is ""; null is the record Null.                                      *)
(***************************************************************************)
EXTENDS Integers, Sequences, FiniteSets, TLC

VARIABLES
    \* ---- AuthProvider (lib/AuthContext.jsx) ----
    user,               \* useState(null): Null or [id, email]
    isAuthenticated,    \* useState(false)
    isLoadingAuth,      \* useState(true)
    \* ---- NewAnalysis (pages/NewAnalysis.jsx) ----
    naView,             \* what the route shows: "mounting", "form", "crashed", "results", "planSelection"
    rgbImage,           \* useState(null): Null or a File
    thermalImage,       \* useState(null)
    inputs,             \* the seven required text inputs, by state name
    loading,            \* useState(false)
    error,              \* useState(null)
    showUpgradeModal,   \* useState(false)
    upgradeTitle,       \* useState("Upgrade required")
    upgradeMessage,     \* useState("")
    upgradeCtaLabel,    \* useState("View plans")
    naPc,               \* where the running handleSubmit is: "idle", "gate", "analyze"
    formData,           \* the FormData of the running handleSubmit (built from the values its closure captured)
    gate,               \* the can_analyze exchange of the running handleSubmit
    navResult,          \* state.result handed to navigate("/Results"), or Null
    lastEvent,          \* history: the step that led to this state
    \* ---- analyzeThermalImages (functions/analyzeThermalImages.ts) ----
    pxEnv,              \* Deno.env THERMAL_API_BASE_URL
    pxPc,               \* the handler: "idle", "attempt1", "sleeping", "attempt2", "done"
    pxReq,              \* the incoming request
    apiFormData,        \* the form sent upstream
    upstream,           \* the POSTs made upstream for this request, in order
    attempts,           \* history: what each upstream fetch came to, in order
    pxResponse,         \* the Response returned to the client, or Null
    \* ---- ExpertPreview (pages/ExpertPreview.jsx) ----
    mode,               \* useState("Explain")
    sessionId,          \* useState(null)
    input,              \* useState("")
    busy,               \* useState(false)
    epError,            \* the page's error, useState("")
    turns,              \* useState([]): [role, text] in order
    leadEmail,          \* useState("")
    leadRole,           \* useState("")
    leadBusy,           \* useState(false)
    leadSuccess,        \* useState(false)
    leadError,          \* useState("")
    chatPending,        \* the chat request in flight, or Null
    chatSent,           \* history: chat requests sent since the page was mounted
    contactPending,     \* the contact request in flight, or Null
    \* ---- the application shell (App.jsx, Layout.jsx, PlanSelection.jsx, RequireAuth.jsx) ----
    localStorage,       \* the browser's localStorage, by key
    route,              \* the router's location, or "external"
    nextPath,           \* PlanSelection: searchParams.get("next") || "/Dashboard"
    reloadPending,      \* window.location.href = "/" has been assigned and the load has not happened yet
    layoutLoginOpen,    \* Layout: useState(false) loginOpen
    psLoginOpen,        \* PlanSelection: useState(false) loginOpen
    raView,             \* what RequireAuth renders: "notRendered", "loading", "signInRequired", "children"
    checkoutPosts,      \* history: the bodies POSTed to /v1/billing/checkout since the page load
    checkoutPending,    \* checkout requests not answered yet
    lastAlert,          \* the last window.alert, or <<>>
    appEvent,           \* history: the step that led to this state
    refreshPending,     \* Layout: refreshEntitlements fetches in flight in this document
    \* ---- BillingSuccess (pages/BillingSuccess.jsx) ----
    bsNext,             \* searchParams.get("next") || "/NewAnalysis"
    bsSaved,            \* sessionStorage thermalai_last_result_payload
    bsPc,               \* run(): "notMounted", "mounted", "immediate1", "immediate2", "polling", "returned"
    cancelled,          \* the effect's cancelled flag (set by its cleanup)
    intervalId,         \* "null", "active" (set and running) or "cleared"
    elapsed,            \* Date.now() - start when the interval was set or last fired, in ms
    tickCount,          \* history: how often the interval has fired
    inflight1,          \* interval callbacks waiting for the first fetch of fetchBillingMe
    inflight2,          \* interval callbacks waiting for its second fetch
    bsStatus,           \* useState("Confirming your access...")
    bsDetails,          \* useState("")
    bsNav,              \* the last navigate() from the page, or Null
    polled,             \* history: a request to /v1/billing/me was made
    accessSeen,         \* history: fetchBillingMe has returned an entitlement that shows access
    wentNext,           \* history: goNext has navigated
    leftByUser,         \* history: the visitor navigated away
    \* ---- applyInvite (functions/applyInvite.ts) ----
    VIP_EMAILS,         \* the allowlist of addresses
    VIP_DOMAINS,        \* the allowlist of domain suffixes
    aiPc,               \* the handler: "idle", "me", "updateMe", "done"
    aiBody,             \* what req.json() will give for the request being served
    aiUser,             \* what base44.auth.me() answered, or Null
    profiles,           \* the base44 accounts' plan fields, by account e-mail
    aiResponse,         \* the Response returned, or Null
    aiUpdated           \* history: updateMe has succeeded for this request

authVars == <<user, isAuthenticated, isLoadingAuth>>
naVars == <<naView, rgbImage, thermalImage, inputs, loading, error, showUpgradeModal,
            upgradeTitle, upgradeMessage, upgradeCtaLabel, naPc, formData, gate, navResult,
            lastEvent>>
pxVars == <<pxEnv, pxPc, pxReq, apiFormData, upstream, attempts, pxResponse>>
epVars == <<mode, sessionId, input, busy, epError, turns, leadEmail, leadRole, leadBusy,
            leadSuccess, leadError, chatPending, chatSent, contactPending>>
appVars == <<localStorage, route, nextPath, reloadPending, layoutLoginOpen, psLoginOpen,
             raView, checkoutPosts, checkoutPending, lastAlert, appEvent, refreshPending>>
bsVars == <<bsNext, bsSaved, bsPc, cancelled, intervalId, elapsed, tickCount, inflight1,
            inflight2, bsStatus, bsDetails, bsNav, polled, accessSeen, wentNext, leftByUser>>
aiVars == <<VIP_EMAILS, VIP_DOMAINS, aiPc, aiBody, aiUser, profiles, aiResponse, aiUpdated>>

\* Results page: the payload shown, the export requests sent and still in
\* flight, the alerts and downloads so far; rsCalls and rsEvent are history.
VARIABLES rsPayload, exportPosts, exportPending, rsAlerts, rsDownloads, rsCalls, rsEvent
rsVars == <<rsPayload, exportPosts, exportPending, rsAlerts, rsDownloads, rsCalls, rsEvent>>

\* Heat-loss engine, one request: the stage reached, the inputs, the
\* segmentation, the raw and the resolved areas, the per-component losses, the
\* climate lookup, the metadata markers, the Report and the fatal error.
VARIABLES egPc, egInputs, egSeg, egRawAreas, egAreas, egLoss, egClimate, egMeta, egReport,
          egError
egVars == <<egPc, egInputs, egSeg, egRawAreas, egAreas, egLoss, egClimate, egMeta, egReport,
            egError>>
vars == <<authVars, naVars, pxVars, epVars, appVars, bsVars, aiVars, rsVars, egVars>>

Null == [null |-> TRUE]      \* null where the value is otherwise an object
NullStr == "<null>"          \* null where the value is otherwise a string

(***************************************************************************)
(* Users.  AuthProvider.login(email) is the only writer of the user: the   *)
(* object is {id: email, email: email}, and LoginDialog calls login only   *)
(* with a non-empty address that contains "@".                             *)
(***************************************************************************)
Emails == {"ana@x.io", "bo@y.io"}
UserOf(email) == [id |-> email, email |-> email]

\* components/userIdentity.jsx.  (user_id/_id/emailAddress/primary_email are
\* fallbacks for shapes AuthProvider never produces.)
getUserIdentity(u) ==
    IF u = Null THEN [userId |-> "", userEmail |-> ""]
    ELSE [userId |-> u.id, userEmail |-> u.email]

(***************************************************************************)
(* NewAnalysis                                                             *)
(***************************************************************************)
THERMAL_API_ANALYZE_URL == "/analyze"
CAN_ANALYZE_URL == "/v1/billing/can_analyze"

TextInputs == {"city", "country", "facadeArea", "fuelPrice", "heatingBaseTemp", "tInside", "tOutside"}
InitialInputs ==
    [f \in TextInputs |->
        IF f = "heatingBaseTemp" THEN "13" ELSE IF f = "tInside" THEN "22" ELSE ""]
\* What the user types into an input: nothing (clearing it) or one value per input.
InputValues(f) == {"", IF InitialInputs[f] # "" THEN InitialInputs[f] ELSE "7"}
MAX_MB == 8
Files == {[name |-> "facade.jpg", sizeMB |-> 2], [name |-> "huge.tiff", sizeMB |-> 9]}

\* The request fields the analysis contract requires (spec section 6).
RequiredFields == {"rgb_image", "thermal_image", "city", "country", "facade_area_m2",
                   "fuel_price_eur_per_kwh", "heating_base_temp_c", "t_inside", "t_outside"}

DEFAULT_ERROR == "Something went wrong. Please try again."
MSG_UPLOAD_BOTH == "Please upload both RGB and thermal images"
MSG_FILL_ALL == "Please fill in all required fields"
MSG_TOO_LARGE == "File too large. Please upload images under 8MB."

\* A response body as the page sees it after resp.json() / resp.text(): a JSON
\* object with some of the fields extractErrorMessage looks at, JSON null, or text.
NoFields == [kind |-> "object", message |-> "", error |-> "", detail |-> "", msg |-> "",
             entitlementMessage |-> ""]
ObjectPayloads ==
    {NoFields,
     [NoFields EXCEPT !.message = "m:message", !.error = "m:error"],
     [NoFields EXCEPT !.detail = "m:detail", !.entitlementMessage = "m:entitlement"]}
TextPayloads == [kind : {"text"}, text : {"", "Internal Server Error"}]
JsonNullPayload == [kind |-> "jsonNull"]
JsonPayloads == ObjectPayloads \cup {JsonNullPayload}

extractErrorMessage(payload, fallback) ==
    IF payload.kind = "jsonNull" THEN fallback
    ELSE IF payload.kind = "text" THEN (IF payload.text = "" THEN fallback ELSE payload.text)
    ELSE IF payload.message # "" THEN payload.message
    ELSE IF payload.error # "" THEN payload.error
    ELSE IF payload.detail # "" THEN payload.detail
    ELSE IF payload.msg # "" THEN payload.msg
    ELSE IF payload.entitlementMessage # "" THEN payload.entitlementMessage
    ELSE fallback

\* openUpgrade({title, message, ctaLabel})
openUpgrade(title, message, ctaLabel) ==
    /\ upgradeTitle' = (IF title # "" THEN title ELSE "Upgrade required")
    /\ upgradeMessage' = (IF message # "" THEN message
                          ELSE "You have reached your limit. Please upgrade or purchase more credits.")
    /\ upgradeCtaLabel' = (IF ctaLabel # "" THEN ctaLabel ELSE "View plans")
    /\ showUpgradeModal' = TRUE

\* The bounds the page declares for the overlay threshold percentile.
OVERLAY_MIN == 80
OVERLAY_MAX == 98

\* const [overlayThreshold, setOverlayThreshold] = useState("80"): the setter is
\* never called, so the state keeps its initial value for the page's lifetime.
overlayThresholdUnset == ""
overlayThreshold == "80"

\* Object.entries(params).forEach(([k, v]) => { if (v) formData.append(k, v) })
\* for the parameters whose state the page can hold; the advanced inputs are
\* left at their initial values.
Params ==
    {<<"city", inputs["city"]>>, <<"country", inputs["country"]>>,
     <<"facade_area_m2", inputs["facadeArea"]>>,
     <<"fuel_price_eur_per_kwh", inputs["fuelPrice"]>>,
     <<"heating_base_temp_c", inputs["heatingBaseTemp"]>>,
     <<"t_inside", inputs["tInside"]>>, <<"t_outside", inputs["tOutside"]>>,
     <<"discount_rate", "0.03">>, <<"inflation_rate", "0.03">>,
     <<"overlay_threshold_percentile", overlayThreshold>>,
     <<"include_overlay_base64", "true">>, <<"include_gamma_payload", "false">>,
     <<"include_thermal_base64", "true">>, <<"include_boxed_base64", "true">>,
     <<"include_rgb_base64", "true">>,
     <<"material_current_wall", "uninsulated_brick_wall">>,
     <<"material_improved_wall", "insulated_wall">>,
     <<"material_current_window", "single_glazed_window">>,
     <<"material_improved_window", "double_glazed_window">>,
     <<"material_current_door", "default">>, <<"material_improved_door", "default">>,
     <<"latitude", "">>, <<"longitude", "">>, <<"hdd", "">>, <<"address", "">>}

BuildFormData ==
    LET id == getUserIdentity(user) IN
    {<<"rgb_image", rgbImage.name>>, <<"thermal_image", thermalImage.name>>}
    \cup (IF id.userId # "" THEN {<<"user_id", id.userId>>} ELSE {})
    \cup (IF id.userEmail # "" THEN {<<"user_email", id.userEmail>>} ELSE {})
    \cup {p \in Params : p[2] # ""}

Keys(fd) == {p[1] : p \in fd}

InitAuthIdle == user = Null /\ isAuthenticated = FALSE /\ isLoadingAuth = TRUE

InitNAIdle ==
    /\ naView = "mounting"
    /\ rgbImage = Null /\ thermalImage = Null
    /\ inputs = InitialInputs
    /\ loading = FALSE /\ error = NullStr
    /\ showUpgradeModal = FALSE
    /\ upgradeTitle = "Upgrade required" /\ upgradeMessage = "" /\ upgradeCtaLabel = "View plans"
    /\ naPc = "idle" /\ formData = {} /\ gate = [state |-> "none"] /\ navResult = Null
    /\ lastEvent = [op |-> "init"]

\* What a fetch can come to: it throws (no HTTP response), or a response arrives
\* whose body resp.json()/resp.text() either reads (payload) or fails to read
\* (invalid JSON under a JSON content type, or a body stream that breaks).
Bodies == {[read |-> FALSE]} \cup [read : {TRUE}, payload : JsonPayloads \cup TextPayloads]
FetchThrows == [t |-> "throw"]
GateStatuses == {200, 402, 500}
AnalyzeStatuses == {200, 400, 402, 500}
GateOutcomes == {FetchThrows} \cup [t : {"response"}, status : GateStatuses, body : Bodies]
AnalyzeOutcomes == {FetchThrows} \cup [t : {"response"}, status : AnalyzeStatuses, body : Bodies]
Ok(status) == status >= 200 /\ status <= 299

MSG_FETCH_FAILED == "Failed to fetch"
MSG_BODY_UNREADABLE == "Unexpected token < in JSON at position 0"
MSG_NULL_PAYLOAD == "Cannot read properties of null (reading 'raw')"

\* The value AuthContext.Provider hands to useAuth().
ContextValueKeys == {"user", "isAuthenticated", "isLoadingAuth", "login", "logout"}

naFormState == <<rgbImage, thermalImage, inputs>>
naUpgradeState == <<showUpgradeModal, upgradeTitle, upgradeMessage, upgradeCtaLabel>>
NAOnly == UNCHANGED <<authVars, pxVars, epVars, appVars, bsVars, aiVars, rsVars, egVars>>

\* First render and the auth effect: with no authenticated user it calls the
\* navigateToLogin it destructured from useAuth(); calling what the context
\* value does not hold throws, and the ErrorBoundary replaces the page.
NAMount ==
    /\ naView = "mounting"
    /\ naView' = IF ~isLoadingAuth /\ ~isAuthenticated /\ "navigateToLogin" \notin ContextValueKeys
                 THEN "crashed" ELSE "form"
    /\ lastEvent' = [op |-> "mount"]
    /\ UNCHANGED <<naFormState, loading, error, naUpgradeState, naPc, formData, gate, navResult>>
    /\ NAOnly

\* onChange of a required input.  The upgrade dialog is modal: while it is
\* open the form behind it takes no input.
SetInput(f, v) ==
    /\ naView = "form" /\ ~showUpgradeModal
    /\ inputs' = [inputs EXCEPT ![f] = v]
    /\ lastEvent' = [op |-> "setInput"]
    /\ UNCHANGED <<naView, rgbImage, thermalImage, loading, error, naUpgradeState, naPc,
                   formData, gate, navResult>>
    /\ NAOnly

handleFileSelect(file, type) ==
    /\ naView = "form" /\ ~showUpgradeModal
    /\ IF file.sizeMB * 1024 * 1024 > MAX_MB * 1024 * 1024
       THEN /\ error' = MSG_TOO_LARGE
            /\ UNCHANGED <<rgbImage, thermalImage>>
       ELSE /\ rgbImage' = (IF type = "rgb" THEN file ELSE rgbImage)
            /\ thermalImage' = (IF type = "rgb" THEN thermalImage ELSE file)
            /\ error' = NullStr
    /\ lastEvent' = [op |-> "fileSelect"]
    /\ UNCHANGED <<naView, inputs, loading, naUpgradeState, naPc, formData, gate, navResult>>
    /\ NAOnly

\* handleSubmit's two validation lines (175, 176).
ImagesMissing == rgbImage = Null \/ thermalImage = Null
FieldsMissing ==
    \/ inputs["city"] = "" \/ inputs["country"] = "" \/ inputs["facadeArea"] = ""
    \/ inputs["fuelPrice"] = "" \/ inputs["heatingBaseTemp"] = ""

\* The body of the can_analyze POST.
GateRequest(id) == [user_id |-> id.userId, user_email |-> id.userEmail, consume |-> FALSE]

\* The required request fields whose state is empty when handleSubmit is called.
EmptyRequired ==
    (IF rgbImage = Null THEN {"rgb_image"} ELSE {})
    \cup (IF thermalImage = Null THEN {"thermal_image"} ELSE {})
    \cup {p[1] : p \in {q \in Params : q[1] \in RequiredFields /\ q[2] = ""}}

\* handleSubmit up to its first await that leaves the page waiting: validation,
\* setLoading(true), and checkEntitlementBeforeAnalyze up to its fetch; with no
\* identity the gate returns {ok: true} at once and /analyze is posted.
handleSubmit ==
    /\ naView = "form" /\ ~loading /\ ~showUpgradeModal
    /\ IF ImagesMissing
       THEN /\ error' = MSG_UPLOAD_BOTH
            /\ lastEvent' = [op |-> "submit", empty |-> EmptyRequired]
            /\ UNCHANGED <<loading, naPc, formData, gate>>
       ELSE IF FieldsMissing
       THEN /\ error' = MSG_FILL_ALL
            /\ lastEvent' = [op |-> "submit", empty |-> EmptyRequired]
            /\ UNCHANGED <<loading, naPc, formData, gate>>
       ELSE /\ loading' = TRUE
            /\ error' = NullStr
            /\ formData' = BuildFormData
            /\ lastEvent' = [op |-> "submit", empty |-> EmptyRequired]
            /\ LET id == getUserIdentity(user) IN
               IF id.userId = "" \/ id.userEmail = ""
               THEN /\ gate' = [state |-> "none"]
                    /\ naPc' = "analyze"
               ELSE /\ gate' = [state |-> "sent", body |-> GateRequest(id)]
                    /\ naPc' = "gate"
    /\ UNCHANGED <<naView, naFormState, naUpgradeState, navResult>>
    /\ NAOnly

\* What checkEntitlementBeforeAnalyze returns as .ok for an answer to its fetch
\* (lines 144-155): {ok: false} only from inside the !entitlementCheck.ok branch,
\* which reads the body first; whatever throws in the try lands in the catch,
\* which returns {ok: true}.
gateAlwaysOpen(o) == TRUE
gateOk(o) ==
    IF o.t = "throw" THEN TRUE
    ELSE IF Ok(o.status) THEN TRUE
    ELSE IF ~o.body.read THEN TRUE
    ELSE FALSE

\* The rest of checkEntitlementBeforeAnalyze and handleSubmit's use of it
\* (lines 144-155, 181-224).
checkEntitlementBeforeAnalyze(o) ==
    /\ naPc = "gate"
    /\ lastEvent' = [op |-> "gateResponse", outcome |-> o]
    /\ IF ~gateOk(o)
       THEN /\ openUpgrade("No credits remaining",
                           extractErrorMessage(o.body.payload, "No remaining credits."),
                           "Buy scans")
            /\ gate' = [state |-> "denied", body |-> gate.body]
            /\ loading' = FALSE
            /\ naPc' = "idle"
            /\ formData' = {}
       ELSE /\ gate' = [state |-> "passed", body |-> gate.body]
            /\ naPc' = "analyze"
            /\ UNCHANGED <<loading, formData, naUpgradeState>>
    /\ UNCHANGED <<naView, naFormState, error, navResult>>
    /\ NAOnly

\* Which way handleSubmit goes on the answer to POST /analyze (lines 224-245).
analyzeBranchNoOkCheck(o) ==
    IF o.t = "throw" THEN "threw"
    ELSE IF ~o.body.read THEN "unreadable"
    ELSE IF o.body.payload.kind = "jsonNull" THEN "nullPayload"
    ELSE "navigate"
analyzeBranch(o) ==
    IF o.t = "throw" THEN "threw"
    ELSE IF ~o.body.read THEN "unreadable"
    ELSE IF ~Ok(o.status) THEN (IF o.status = 402 THEN "upgrade" ELSE "error")
    ELSE IF o.body.payload.kind = "jsonNull" THEN "nullPayload"
    ELSE "navigate"

\* handleSubmit from the answer to POST /analyze on (lines 224-248).
analyzeResponse(o) ==
    /\ naPc = "analyze"
    /\ naPc' = "idle"
    /\ loading' = FALSE
    /\ formData' = {}
    /\ gate' = [state |-> "none"]
    /\ lastEvent' = [op |-> "analyzeResponse", outcome |-> o]
    /\ LET branch == analyzeBranch(o) IN
       CASE branch = "threw" ->
                /\ error' = MSG_FETCH_FAILED
                /\ UNCHANGED <<naView, navResult, naUpgradeState>>
         [] branch = "unreadable" ->
                /\ error' = MSG_BODY_UNREADABLE
                /\ UNCHANGED <<naView, navResult, naUpgradeState>>
         [] branch = "upgrade" ->
                /\ openUpgrade("Credits exhausted",
                               extractErrorMessage(o.body.payload, "Credits exhausted."),
                               "Buy scans")
                /\ UNCHANGED <<naView, navResult, error>>
         [] branch = "error" ->
                /\ error' = extractErrorMessage(o.body.payload, DEFAULT_ERROR)
                /\ UNCHANGED <<naView, navResult, naUpgradeState>>
         [] branch = "nullPayload" ->
                \* typeof null === "object": safePayload is null and .raw throws
                /\ error' = MSG_NULL_PAYLOAD
                /\ UNCHANGED <<naView, navResult, naUpgradeState>>
         [] branch = "navigate" ->
                /\ navResult' = (IF o.body.payload.kind = "object"
                                 THEN [report |-> o.body.payload, api_base |-> ""]
                                 ELSE [report |-> [kind |-> "empty"], api_base |-> ""])
                /\ naView' = "results"
                /\ UNCHANGED <<error, naUpgradeState>>
    /\ UNCHANGED naFormState
    /\ NAOnly

\* The dialog's Cancel button / onOpenChange.
closeUpgradeModal ==
    /\ naView = "form" /\ showUpgradeModal
    /\ showUpgradeModal' = FALSE
    /\ lastEvent' = [op |-> "closeUpgrade"]
    /\ UNCHANGED <<naView, naFormState, loading, error, upgradeTitle, upgradeMessage,
                   upgradeCtaLabel, naPc, formData, gate, navResult>>
    /\ NAOnly

\* The dialog's call to action: navigate('/PlanSelection?force=1').
upgradeCta ==
    /\ naView = "form" /\ showUpgradeModal
    /\ naView' = "planSelection"
    /\ lastEvent' = [op |-> "upgradeCta"]
    /\ UNCHANGED <<naFormState, loading, error, naUpgradeState, naPc, formData, gate, navResult>>
    /\ NAOnly

NextNewAnalysis ==
    \/ NAMount
    \/ \E f \in TextInputs : \E v \in InputValues(f) : SetInput(f, v)
    \/ \E file \in Files, type \in {"rgb", "thermal"} : handleFileSelect(file, type)
    \/ handleSubmit
    \/ \E o \in GateOutcomes : checkEntitlementBeforeAnalyze(o)
    \/ \E o \in AnalyzeOutcomes : analyzeResponse(o)
    \/ closeUpgradeModal
    \/ upgradeCta



(***************************************************************************)
(* Claims about NewAnalysis                                                *)
(***************************************************************************)
NonEmptyKeys(fd) == {p[1] : p \in {q \in fd : q[2] # ""}}
NonOkStatus(o) == o.t = "response" /\ (o.status < 200 \/ o.status > 299)

C19_UnauthenticatedVisitNeverCrashes ==
    (~isLoadingAuth /\ ~isAuthenticated) => naView # "crashed"

\* The number a decimal form value denotes; -1 stands for a value that is not
\* a number (NaN).
NumberOf(s) ==
    CASE s = "50" -> 50 [] s = "79" -> 79 [] s = "80" -> 80 [] s = "90" -> 90
      [] s = "98" -> 98 [] s = "99" -> 99 [] OTHER -> -1

\* C12: every /analyze request that NewAnalysis sends carries exactly one
\* overlay_threshold_percentile value, and that value lies within
\* OVERLAY_MIN..OVERLAY_MAX, whatever the state of the form.
C12_OverlayThresholdInRange ==
    naPc = "analyze" =>
        LET sent == {p \in formData : p[1] = "overlay_threshold_percentile"} IN
        /\ Cardinality(sent) = 1
        /\ \A p \in sent : NumberOf(p[2]) >= OVERLAY_MIN /\ NumberOf(p[2]) <= OVERLAY_MAX

\* An /analyze request is in flight from a form whose fields were edited.
C12_WitnessAnalyzeSent ==
    /\ naPc = "analyze"
    /\ inputs # InitialInputs
    /\ <<"overlay_threshold_percentile", "80">> \in formData

\* C2 as stated: after a non-OK answer to /analyze the page has not navigated
\* and holds no result; on 402 the upgrade dialog is open and there is no error
\* text; on any other non-OK status the error is the message extracted from
\* the response.
C2_AsStated ==
    (lastEvent.op = "analyzeResponse" /\ NonOkStatus(lastEvent.outcome))
    => /\ naView = "form" /\ navResult = Null
       /\ IF lastEvent.outcome.status = 402
          THEN showUpgradeModal /\ error = NullStr
          ELSE error = (IF lastEvent.outcome.body.read
                        THEN extractErrorMessage(lastEvent.outcome.body.payload, DEFAULT_ERROR)
                        ELSE DEFAULT_ERROR)

\* C2 as amended: after a non-OK answer to /analyze the page has not navigated,
\* holds no result and is no longer loading; if the body could not be read the
\* error is the read failure's message and the dialog stays closed; otherwise
\* on 402 the upgrade dialog is open with the extracted message and the answer
\* has set no error text (the error is what it was: none, or the file-size
\* message of a file picked meanwhile), and on any other status the error is
\* the message extracted from the response.
C2_NonOkNeverNavigates ==
    (lastEvent.op = "analyzeResponse" /\ NonOkStatus(lastEvent.outcome))
    => /\ naView = "form" /\ navResult = Null /\ ~loading
       /\ IF ~lastEvent.outcome.body.read
          THEN error = MSG_BODY_UNREADABLE /\ ~showUpgradeModal
          ELSE IF lastEvent.outcome.status = 402
          THEN /\ showUpgradeModal
               /\ upgradeMessage = extractErrorMessage(lastEvent.outcome.body.payload,
                                                       "Credits exhausted.")
               /\ error \in {NullStr, MSG_TOO_LARGE}
          ELSE /\ error = extractErrorMessage(lastEvent.outcome.body.payload, DEFAULT_ERROR)
               /\ ~showUpgradeModal

C2_Witness402 ==
    /\ lastEvent.op = "analyzeResponse" /\ NonOkStatus(lastEvent.outcome)
    /\ lastEvent.outcome.status = 402 /\ lastEvent.outcome.body.read
    /\ showUpgradeModal /\ error = NullStr /\ naView = "form"

Identified == user # Null /\ user.id # "" /\ user.email # ""

PxEnvs == {[set |-> FALSE], [set |-> TRUE, host |-> "", slash |-> FALSE],
           [set |-> TRUE, host |-> "https://api.example", slash |-> FALSE],
           [set |-> TRUE, host |-> "https://api.example", slash |-> TRUE]}
\* `${apiUrl.replace(/\/$/, '')}/analyze`
Endpoint(env) == [host |-> env.host, path |-> "/analyze"]

\* Incoming forms: any choice of these fields, one value each.
PxFieldValues ==
    [rgb_image |-> {"facade.jpg", ""}, thermal_image |-> {"thermal.jpg"}, city |-> {"Madrid"},
     include_overlay_base64 |-> {"true", "false"}, include_gamma_payload |-> {"true"}]
PxFields == DOMAIN PxFieldValues
PxForms ==
    UNION {{ {<<k, f[k]>> : k \in K} : f \in [K -> UNION {PxFieldValues[k] : k \in K}] }
           : K \in SUBSET PxFields}
PxValidForms ==
    {fd \in PxForms : \A p \in fd : p[2] \in PxFieldValues[p[1]]}
\* A request: its body parses as a form (req.formData() resolves) or does not.
PxRequests == {[parsable |-> FALSE]} \cup [parsable : {TRUE}, form : PxValidForms]

\* formData.get(name): the value, or null when the form has no such field.
Get(fd, name) == IF \E p \in fd : p[1] = name
                 THEN (CHOOSE p \in fd : p[1] = name)[2] ELSE NullStr
Has(fd, name) == \E p \in fd : p[1] = name
Falsy(v) == v = NullStr \/ v = ""

\* if (!rgbImage || !thermalImage)
imagesRequiredRgbOnly(fd) == Falsy(Get(fd, "rgb_image"))
imagesRequired(fd) == Falsy(Get(fd, "rgb_image")) \/ Falsy(Get(fd, "thermal_image"))

\* Lines 32-46: every entry forwarded, the two flags defaulted when absent.
ForwardedFormForcesFlags(fd) ==
    {p \in fd : p[1] \notin {"include_overlay_base64", "include_gamma_payload"}}
       \cup {<<"include_overlay_base64", "false">>, <<"include_gamma_payload", "false">>}
ForwardedForm(fd) ==
    fd \cup (IF Has(fd, "include_overlay_base64") THEN {} ELSE {<<"include_overlay_base64", "false">>})
       \cup (IF Has(fd, "include_gamma_payload") THEN {} ELSE {<<"include_gamma_payload", "false">>})

\* What an upstream fetch comes to.  304 stands for the statuses a Response
\* with a body cannot be built for.
UpstreamStatuses == {200, 304, 402, 500}
UpstreamOutcomes ==
    {FetchThrows} \cup [t : {"response"}, status : UpstreamStatuses, json : BOOLEAN, read : BOOLEAN]
NullBodyStatus(status) == status \in {101, 103, 204, 205, 304}
Payload(o) == IF o.json THEN [json |-> "body"] ELSE [raw |-> "body"]

MSG_UPSTREAM_FAILED == "error sending request"
MSG_NOT_A_FORM == "Body can not be decoded as form data"
MSG_NULL_BODY_STATUS == "Response with null body status cannot have body"

InitPxIdle ==
    /\ pxEnv = [set |-> FALSE]
    /\ pxPc = "idle" /\ pxReq = Null /\ apiFormData = {}
    /\ upstream = <<>> /\ attempts = <<>> /\ pxResponse = Null

PxOnly == UNCHANGED <<authVars, naVars, epVars, appVars, bsVars, aiVars, rsVars, egVars>>
Respond(status, body) == pxResponse' = [status |-> status, body |-> body] /\ pxPc' = "done"

\* Deno.serve handler from the request to its first upstream fetch (lines 5-55).
pxServe(req) ==
    /\ pxPc \in {"idle", "done"}
    /\ pxReq' = req
    /\ attempts' = <<>>
    /\ IF ~req.parsable
       THEN /\ Respond(500, [error |-> MSG_NOT_A_FORM])
            /\ upstream' = <<>> /\ apiFormData' = {}
       ELSE IF imagesRequired(req.form)
       THEN /\ Respond(400, [error |-> "Both rgb_image and thermal_image are required"])
            /\ upstream' = <<>> /\ apiFormData' = {}
       ELSE IF ~pxEnv.set \/ pxEnv.host = ""
       THEN /\ Respond(500, [error |-> "THERMAL_API_BASE_URL not configured"])
            /\ upstream' = <<>> /\ apiFormData' = {}
       ELSE /\ apiFormData' = ForwardedForm(req.form)
            /\ upstream' = <<[method |-> "POST", url |-> Endpoint(pxEnv),
                              body |-> ForwardedForm(req.form)]>>
            /\ pxPc' = "attempt1"
            /\ pxResponse' = Null
    /\ UNCHANGED pxEnv
    /\ PxOnly

\* Lines 63-84: the response to the client once an upstream fetch has resolved.
pxRelay(o) ==
    IF ~o.read THEN Respond(500, [error |-> MSG_BODY_UNREADABLE])
    ELSE IF ~Ok(o.status)
    THEN IF NullBodyStatus(o.status)
         THEN Respond(500, [error |-> MSG_NULL_BODY_STATUS])
         ELSE Respond(o.status, [error |-> "Analysis failed", status |-> o.status,
                                 details |-> Payload(o)])
    ELSE Respond(200, Payload(o))

\* The inner try/catch (lines 54-61): which answers to attempt 1 lead to attempt 2.
retriesOnServerError(o) == o.t = "throw" \/ o.status >= 500
retries(o) == o.t = "throw"

pxAttempt1(o) ==
    /\ pxPc = "attempt1"
    /\ attempts' = Append(attempts, o)
    /\ IF retries(o)
       THEN pxPc' = "sleeping" /\ UNCHANGED pxResponse
       ELSE pxRelay(o)
    /\ UNCHANGED <<pxEnv, pxReq, apiFormData, upstream>>
    /\ PxOnly

\* await sleep(5000), then the second fetch.
pxRetry ==
    /\ pxPc = "sleeping"
    /\ upstream' = Append(upstream, [method |-> "POST", url |-> Endpoint(pxEnv),
                                     body |-> apiFormData])
    /\ pxPc' = "attempt2"
    /\ UNCHANGED <<pxEnv, pxReq, apiFormData, attempts, pxResponse>>
    /\ PxOnly

pxAttempt2(o) ==
    /\ pxPc = "attempt2"
    /\ attempts' = Append(attempts, o)
    /\ IF o.t = "throw"
       THEN Respond(500, [error |-> MSG_UPSTREAM_FAILED])
       ELSE pxRelay(o)
    /\ UNCHANGED <<pxEnv, pxReq, apiFormData, upstream>>
    /\ PxOnly

NextProxy ==
    \/ \E req \in PxRequests : pxServe(req)
    \/ \E o \in UpstreamOutcomes : pxAttempt1(o)
    \/ pxRetry
    \/ \E o \in UpstreamOutcomes : pxAttempt2(o)

(***************************************************************************)
(* Claims about analyzeThermalImages                                       *)
(***************************************************************************)
PxParsed == pxReq # Null /\ pxReq.parsable
PxConfigured == pxEnv.set /\ pxEnv.host # ""
LastAttempt == attempts[Len(attempts)]

\* C3: a request whose form lacks rgb_image or thermal_image is answered 400
\* and leads to no upstream call; a request with both images is answered 500,
\* again with no upstream call, when THERMAL_API_BASE_URL is not configured.
C3_RejectsWithoutUpstreamCall ==
    /\ (PxParsed /\ (~Has(pxReq.form, "rgb_image") \/ ~Has(pxReq.form, "thermal_image")))
          => (pxPc = "done" /\ pxResponse.status = 400 /\ upstream = <<>>)
    /\ (PxParsed /\ ~PxConfigured
        /\ <<"rgb_image", "facade.jpg">> \in pxReq.form
        /\ <<"thermal_image", "thermal.jpg">> \in pxReq.form)
          => (pxPc = "done" /\ pxResponse.status = 500 /\ upstream = <<>>
              /\ pxResponse.body.error = "THERMAL_API_BASE_URL not configured")

C3_WitnessNoThermal ==
    /\ PxParsed /\ PxConfigured /\ pxPc = "done"
    /\ <<"rgb_image", "facade.jpg">> \in pxReq.form
    /\ ~Has(pxReq.form, "thermal_image")
    /\ pxResponse.status = 400 /\ upstream = <<>>

\* The retry bound of C4, shared by its two statements: at most two upstream
\* POSTs, the second only after the first fetch threw, none after a response.
PxRetryBound ==
    /\ Len(upstream) <= 2
    /\ Len(upstream) = 2 => (attempts # <<>> /\ attempts[1].t = "throw")
    /\ (attempts # <<>> /\ attempts[1].t = "response") => (Len(upstream) = 1 /\ pxPc = "done")
    /\ Len(attempts) = 2 => pxPc = "done"
    /\ (pxPc = "done" /\ Len(attempts) = 2 /\ attempts[2].t = "throw")
          => (pxResponse.status = 500 /\ pxResponse.body.error = MSG_UPSTREAM_FAILED)

\* C4 as stated: the retry bound, and every non-OK upstream response is
\* relayed with its own status code and error 'Analysis failed'.
C4_AsStated ==
    /\ PxRetryBound
    /\ (pxPc = "done" /\ attempts # <<>> /\ NonOkStatus(LastAttempt))
          => (pxResponse.status = LastAttempt.status
              /\ pxResponse.body.error = "Analysis failed")

\* C4 as amended: the retry bound, and a non-OK upstream response is relayed
\* with its own status code and error 'Analysis failed' when its body could be
\* read and its status is one a response with a body may have; otherwise (the
\* body could not be read, or the status is 304) the client gets a 500 with
\* the error message.
C4_BoundedRetryAndRelay ==
    /\ PxRetryBound
    /\ (pxPc = "done" /\ attempts # <<>> /\ NonOkStatus(LastAttempt))
          => IF LastAttempt.read /\ LastAttempt.status # 304
             THEN /\ pxResponse.status = LastAttempt.status
                  /\ pxResponse.body.error = "Analysis failed"
                  /\ pxResponse.body.status = LastAttempt.status
             ELSE /\ pxResponse.status = 500
                  /\ pxResponse.body.error = (IF LastAttempt.read THEN MSG_NULL_BODY_STATUS
                                              ELSE MSG_BODY_UNREADABLE)

C4_WitnessRetryThenRelay ==
    /\ pxPc = "done" /\ Len(upstream) = 2 /\ Len(attempts) = 2
    /\ attempts[1].t = "throw" /\ NonOkStatus(attempts[2]) /\ attempts[2].read
    /\ attempts[2].status = 402 /\ pxResponse.status = 402

\* C11: the proxy forwards every field of the incoming form to the backend
\* unchanged, and adds include_overlay_base64 and include_gamma_payload as
\* 'false' only when the caller did not supply them; a caller-supplied value
\* for either flag is never overridden.  Of every upstream POST, the retry
\* included.
PxFlags == {"include_overlay_base64", "include_gamma_payload"}
C11_ForwardsFieldsAndDefaultsFlags ==
    \A i \in 1..Len(upstream) :
        LET body == upstream[i].body
            form == pxReq.form
        IN /\ form \subseteq body
           /\ \A p \in body \ form :
                 p[1] \in PxFlags /\ p[2] = "false" /\ \A q \in form : q[1] # p[1]
           /\ \A flag \in PxFlags :
                 (\A q \in form : q[1] # flag) => <<flag, "false">> \in body

C11_WitnessSuppliedFlagKept ==
    /\ Len(upstream) = 2
    /\ <<"include_overlay_base64", "true">> \in pxReq.form
    /\ <<"city", "Madrid">> \in pxReq.form
    /\ \A q \in pxReq.form : q[1] # "include_gamma_payload"
    /\ upstream[2].body = pxReq.form \cup {<<"include_gamma_payload", "false">>}

(***************************************************************************)
(* Strings whose characters the code inspects (trim, toLowerCase,          *)
(* endsWith, a regular expression) are sequences of one-character strings. *)
(***************************************************************************)
RECURSIVE trimStart(_)
trimStart(s) == IF s # <<>> /\ Head(s) = " " THEN trimStart(Tail(s)) ELSE s

RECURSIVE trimEnd(_)
trimEnd(s) == IF s # <<>> /\ s[Len(s)] = " " THEN trimEnd(SubSeq(s, 1, Len(s) - 1)) ELSE s

\* String.prototype.trim
trim(s) == trimEnd(trimStart(s))

(***************************************************************************)
(* ExpertPreview                                                           *)
(***************************************************************************)
\* The chat requests followed in one page session.
MaxRequests == 4

EXPERT_CHAT_URL == "/v1/expert/chat"
CONTACT_URL == "/v1/contact"

\* One of the eight starter prompts, shortened.
STARTER_PROMPTS == {<<"W", "h", "a", "t", "?">>}

\* What the visitor may have typed into the question box.
TypedInputs == {<<>>, <<" ">>, <<" ", "h", "i", " ">>}

Modes == {"Explain", "Interpret", "DecisionSupport"}

\* What the visitor may have typed into the lead e-mail box and the message box.
LeadEmails == {<<>>, <<"a", "@", "b">>, <<" ", "a", "@", "b", ".", "c">>}
LeadRoles == {<<>>, <<"h", "i">>}

\* /^[^\s@]+@[^\s@]+\.[^\s@]+$/ on the trimmed address
isValidEmail(email) ==
    LET e == trim(email) IN
    \E i, j \in 1..Len(e) :
        /\ 1 < i /\ i + 1 < j /\ j < Len(e)
        /\ e[i] = "@" /\ e[j] = "."
        /\ \A k \in (1..Len(e)) \ {i} : e[k] \notin {" ", "@"}

turnCountUser == Cardinality({i \in DOMAIN turns : turns[i].role = "user"})
limitReached == turnCountUser >= 3

MSG_CHAT_FETCH_FAILED == "Failed to fetch"
MSG_CHAT_BODY_UNREADABLE == "Unexpected end of JSON input"
MSG_CHAT_STATUS_500 == "Request failed with status 500"
MSG_CHAT_FORMAT == "Unexpected response format from expertChat."
MSG_LEAD_EMAIL == "Please enter a valid email address."
MSG_LEAD_FAILED == "Failed to send. Please try again."

\* What the chat endpoint may answer: fetch rejects, or a status with a body
\* that is unreadable, JSON null, or an object whose session_id or answer may
\* be missing.
ChatData ==
    {Null} \cup [session_id : {"", "s1"}, answer : {<<>>, <<"o", "k">>}]
ChatOutcomes ==
    {[t |-> "throw"]}
    \cup [t : {"resp"}, status : {200, 500}, read : {FALSE}]
    \cup [t : {"resp"}, status : {200, 500}, read : {TRUE}, data : ChatData]

ContactOutcomes == {[t |-> "throw"], [t |-> "resp", status |-> 200], [t |-> "resp", status |-> 500]}

InitEPIdle ==
    /\ mode = "Explain" /\ sessionId = NullStr /\ input = <<>>
    /\ busy = FALSE /\ epError = "" /\ turns = <<>>
    /\ leadEmail = <<>> /\ leadRole = <<>> /\ leadBusy = FALSE
    /\ leadSuccess = FALSE /\ leadError = ""
    /\ chatPending = Null /\ chatSent = 0 /\ contactPending = Null

epChat == <<sessionId, input, busy, epError, turns, chatPending, chatSent>>
epLead == <<leadEmail, leadRole, leadBusy, leadSuccess, leadError, contactPending>>

EPOnly == UNCHANGED <<authVars, naVars, pxVars, appVars, bsVars, aiVars, rsVars, egVars>>

\* The question box and the mode select; the box is disabled while busy or
\* at the limit.
setInput(v) ==
    /\ ~busy /\ ~limitReached
    /\ input' = v
    /\ UNCHANGED <<mode, sessionId, busy, epError, turns, chatPending, chatSent, epLead>>
    /\ EPOnly

setMode(m) ==
    /\ mode' = m
    /\ UNCHANGED <<epChat, epLead>>
    /\ EPOnly

\* The early return of sendMessage.
sendRefused(trimmed) == trimmed = <<>> \/ busy \/ limitReached

\* sendMessage up to its fetch: Enter and the send button pass the box's
\* text, a starter prompt passes its own.
sendMessage(messageText) ==
    /\ chatSent < MaxRequests
    /\ LET trimmed == trim(messageText) IN
       IF sendRefused(trimmed)
       THEN UNCHANGED <<epError, busy, turns, chatPending, chatSent>>
       ELSE /\ epError' = ""
            /\ busy' = TRUE
            /\ turns' = Append(turns, [role |-> "user", text |-> trimmed])
            /\ chatPending' = [url |-> EXPERT_CHAT_URL, message |-> trimmed,
                               mode |-> mode, session_id |-> sessionId]
            /\ chatSent' = chatSent + 1
    /\ UNCHANGED <<mode, sessionId, input, epLead>>
    /\ EPOnly

\* sendMessage from the answer of its fetch to the end of its finally.
chatResponse(o) ==
    /\ chatPending # Null
    /\ IF o.t = "throw"
       THEN epError' = MSG_CHAT_FETCH_FAILED /\ UNCHANGED <<sessionId, turns>>
       ELSE IF ~(o.status >= 200 /\ o.status <= 299)
       THEN epError' = MSG_CHAT_STATUS_500 /\ UNCHANGED <<sessionId, turns>>
       ELSE IF ~o.read
       THEN epError' = MSG_CHAT_BODY_UNREADABLE /\ UNCHANGED <<sessionId, turns>>
       ELSE IF o.data = Null \/ o.data.session_id = "" \/ o.data.answer = <<>>
       THEN epError' = MSG_CHAT_FORMAT /\ UNCHANGED <<sessionId, turns>>
       ELSE /\ sessionId' = o.data.session_id
            /\ turns' = Append(turns, [role |-> "assistant", text |-> o.data.answer])
            /\ UNCHANGED epError
    /\ busy' = FALSE
    /\ input' = <<>>
    /\ chatPending' = Null
    /\ UNCHANGED <<mode, chatSent, epLead>>
    /\ EPOnly

\* The lead boxes, shown until a lead has been sent.
setLeadEmail(v) ==
    /\ ~leadSuccess
    /\ leadEmail' = v
    /\ UNCHANGED <<mode, epChat, leadRole, leadBusy, leadSuccess, leadError, contactPending>>
    /\ EPOnly

setLeadRole(v) ==
    /\ ~leadSuccess
    /\ leadRole' = v
    /\ UNCHANGED <<mode, epChat, leadEmail, leadBusy, leadSuccess, leadError, contactPending>>
    /\ EPOnly

\* submitLead up to its fetch.  "Send Message" passes "support" and is
\* disabled without a message; "Join Waitlist" (shown at the limit) passes
\* its click event as the type and is disabled without an address: whether
\* JSON.stringify can serialise the event is left open, and when it cannot
\* the catch and the finally run at once.
submitLead(type) ==
    /\ ~leadSuccess /\ ~leadBusy
    /\ IF type = "support" THEN trim(leadRole) # <<>>
                           ELSE limitReached /\ leadEmail # <<>>
    /\ LET email == trim(leadEmail) IN
       IF ~isValidEmail(email)
       THEN /\ leadError' = MSG_LEAD_EMAIL
            /\ UNCHANGED <<leadBusy, contactPending>>
       ELSE \/ /\ leadError' = ""
               /\ leadBusy' = TRUE
               /\ contactPending' = [url |-> CONTACT_URL, email |-> email,
                                     message |-> leadRole, type |-> type]
            \/ /\ type = "clickEvent"
               /\ leadError' = MSG_LEAD_FAILED
               /\ UNCHANGED <<leadBusy, contactPending>>
    /\ UNCHANGED <<mode, epChat, leadEmail, leadRole, leadSuccess>>
    /\ EPOnly

\* submitLead from the answer of its fetch to the end of its finally.
contactResponse(o) ==
    /\ contactPending # Null
    /\ IF o.t = "resp" /\ o.status >= 200 /\ o.status <= 299
       THEN leadSuccess' = TRUE /\ UNCHANGED leadError
       ELSE leadError' = MSG_LEAD_FAILED /\ UNCHANGED leadSuccess
    /\ leadBusy' = FALSE
    /\ contactPending' = Null
    /\ UNCHANGED <<mode, epChat, leadEmail, leadRole>>
    /\ EPOnly

\* "Send another"
sendAnother ==
    /\ leadSuccess
    /\ leadSuccess' = FALSE
    /\ leadRole' = <<>>
    /\ UNCHANGED <<mode, epChat, leadEmail, leadBusy, leadError, contactPending>>
    /\ EPOnly

\* "Clear Chat"
clearAll ==
    /\ IF busy \/ leadBusy
       THEN UNCHANGED <<turns, sessionId, epError, input, leadEmail, leadRole,
                        leadError, leadSuccess>>
       ELSE /\ turns' = <<>>
            /\ sessionId' = NullStr
            /\ epError' = ""
            /\ input' = <<>>
            /\ leadEmail' = <<>>
            /\ leadRole' = <<>>
            /\ leadError' = ""
            /\ leadSuccess' = FALSE
    /\ UNCHANGED <<mode, busy, leadBusy, chatPending, chatSent, contactPending>>
    /\ EPOnly

NextExpertPreview ==
    \/ \E v \in TypedInputs : setInput(v)
    \/ \E m \in Modes : setMode(m)
    \/ \E p \in STARTER_PROMPTS \cup {input} : sendMessage(p)
    \/ \E o \in ChatOutcomes : chatResponse(o)
    \/ \E v \in LeadEmails : setLeadEmail(v)
    \/ \E v \in LeadRoles : setLeadRole(v)
    \/ \E type \in {"support", "clickEvent"} : submitLead(type)
    \/ \E o \in ContactOutcomes : contactResponse(o)
    \/ sendAnother
    \/ clearAll

(***************************************************************************)
(* ExpertPreview: the claim                                                *)
(***************************************************************************)
\* C6: within one ExpertPreview page session, whatever the sequence of
\* sendMessage calls, responses and clearAll operations, at most 3 chat
\* requests are ever sent to /v1/expert/chat.
C6_AtMostThreeChatRequests == chatSent <= 3

(***************************************************************************)
(* The application shell: AuthProvider, AuthenticatedApp, Layout's login   *)
(* and logout, LoginDialog, PlanSelection and RequireAuth.                 *)
(***************************************************************************)
\* The checkout POSTs followed in one page load.
MaxCheckouts == 1
MaxRefresh == 1

LS_USER == "thermalai_user"
LS_ENTITLEMENTS == "thermalai_entitlements"
LS_ENTITLEMENTS_TIMESTAMP == "thermalai_entitlements_timestamp"
LS_SELECTED_PLAN == "thermalai_selected_plan"
LSKeys == {LS_USER, LS_ENTITLEMENTS, LS_ENTITLEMENTS_TIMESTAMP, LS_SELECTED_PLAN}

\* localStorage.getItem of a key that is not there
NoItem == [item |-> FALSE]

\* JSON.stringify / JSON.parse of the user object
JSONstringify(u) == [item |-> TRUE, json |-> <<"id", u.id, "email", u.email>>]
JSONparse(text) == [id |-> text.json[2], email |-> text.json[4]]

\* What an earlier visit may have left in localStorage: nothing, or what
\* login and Layout's entitlement refresh wrote.
StoredEntitlements == [item |-> TRUE, json |-> <<"plan", "community">>]
StoredTimestamp == [item |-> TRUE, text |-> "1700000000000"]
StoredPlan == [item |-> TRUE, text |-> "community"]
Storages ==
    {ls \in [LSKeys -> {NoItem, StoredEntitlements, StoredTimestamp, StoredPlan}
                         \cup {JSONstringify(UserOf(e)) : e \in Emails}] :
        /\ ls[LS_USER] \in {NoItem} \cup {JSONstringify(UserOf(e)) : e \in Emails}
        /\ ls[LS_ENTITLEMENTS] \in {NoItem, StoredEntitlements}
        /\ ls[LS_ENTITLEMENTS_TIMESTAMP] =
              (IF ls[LS_ENTITLEMENTS] = NoItem THEN NoItem ELSE StoredTimestamp)
        /\ ls[LS_SELECTED_PLAN] \in {NoItem, StoredPlan}}

removeItems(ls, keys) == [k \in LSKeys |-> IF k \in keys THEN NoItem ELSE ls[k]]

\* The routes followed, each a page inside Layout; "external" is the checkout
\* page the browser has left the application for.
PLAN_SELECTION == "/PlanSelection"
NEW_ANALYSIS_PROTECTED == "/NewAnalysisProtected"
DEFAULT_NEXT == "/Dashboard"
Routes == {"/", PLAN_SELECTION, NEW_ANALYSIS_PROTECTED, DEFAULT_NEXT, "/Home"}
NextPaths == {DEFAULT_NEXT, NEW_ANALYSIS_PROTECTED}

PlanIds == {"community", "project_scan_1", "project_pack_10", "project_pack_50",
            "project_monthly"}

\* What may be typed into the LoginDialog, and email.includes('@') on it.
TypedEmails == Emails \cup {"", "nobody"}
includesAt(email) == email \in {"ana@x.io", "bo@y.io"}

\* encodeURIComponent on the next paths
encodeURIComponent(path) ==
    IF path = "/Dashboard" THEN "%2FDashboard" ELSE "%2FNewAnalysisProtected"

CHECKOUT_URL == "/v1/billing/checkout"
MSG_INVALID_EMAIL == "Please enter a valid email address."
MSG_CHECKOUT_NO_URL == "Failed to start checkout."
MSG_PAYMENT_ERROR == "Payment Error: "

\* What the checkout endpoint may answer.
CheckoutOutcomes ==
    {[t |-> "throw"]}
    \cup [t : {"resp"}, status : {200, 500}, read : {FALSE}]
    \cup [t : {"resp"}, status : {200, 500}, read : {TRUE},
          url : {"", "https://checkout.example/s"}, error : {"", "No such price"}]

\* RequireAuth's render.
RequireAuthNoUserCheck(u, isLoading) ==
    IF isLoading THEN "loading" ELSE "children"
RequireAuth(u, isLoading) ==
    IF isLoading THEN "loading"
    ELSE IF u = Null THEN "signInRequired"
    ELSE "children"

\* AuthenticatedApp: a spinner while isLoadingAuth, then the route's page;
\* NewAnalysisProtected is RequireAuth around NewAnalysis.
Render(r, u, isLoading) ==
    IF isLoading \/ r # NEW_ANALYSIS_PROTECTED THEN "notRendered"
    ELSE RequireAuth(u, isLoading)

\* A modal LoginDialog is on screen.
DialogOpen == layoutLoginOpen \/ psLoginOpen \/ raView = "signInRequired"

InitAppIdle ==
    /\ localStorage = [k \in LSKeys |-> NoItem]
    /\ route = "/" /\ nextPath = DEFAULT_NEXT /\ reloadPending = FALSE
    /\ layoutLoginOpen = FALSE /\ psLoginOpen = FALSE /\ raView = "notRendered"
    /\ checkoutPosts = <<>> /\ checkoutPending = 0
    /\ lastAlert = <<>> /\ appEvent = [op |-> "init"] /\ refreshPending = 0

AppOnly == UNCHANGED <<naVars, pxVars, epVars, bsVars, aiVars, rsVars, egVars>>

\* AuthProvider's mount effect; Layout then mounts, and its effect on [user]
\* starts refreshEntitlements(user, true) when there is a user.
checkUserAuth ==
    /\ isLoadingAuth /\ route # "external"
    /\ LET storedUser == localStorage[LS_USER] IN
       IF storedUser # NoItem
       THEN user' = JSONparse(storedUser) /\ isAuthenticated' = TRUE
       ELSE user' = Null /\ isAuthenticated' = FALSE
    /\ isLoadingAuth' = FALSE
    /\ raView' = Render(route, user', FALSE)
    /\ refreshPending' = (IF user' # Null THEN refreshPending + 1 ELSE refreshPending)
    /\ appEvent' = [op |-> "checkUserAuth"]
    /\ UNCHANGED <<localStorage, route, nextPath, reloadPending, layoutLoginOpen,
                   psLoginOpen, checkoutPosts, checkoutPending, lastAlert>>
    /\ AppOnly

\* The browser loads the application at a route: every component starts from
\* its initial state.  After logout's window.location.href = "/" the load is
\* of "/"; otherwise the visitor opens or reloads any route, PlanSelection
\* possibly with a next parameter.  The document that is replaced takes its
\* fetches in flight with it.
pageLoad(r, np) ==
    /\ IF reloadPending THEN r = "/" ELSE r \in Routes
    /\ np \in (IF r = PLAN_SELECTION THEN NextPaths ELSE {DEFAULT_NEXT})
    /\ user' = Null /\ isAuthenticated' = FALSE /\ isLoadingAuth' = TRUE
    /\ route' = r /\ nextPath' = np /\ reloadPending' = FALSE
    /\ layoutLoginOpen' = FALSE /\ psLoginOpen' = FALSE
    /\ raView' = Render(r, Null, TRUE)
    /\ checkoutPosts' = <<>> /\ checkoutPending' = 0
    /\ lastAlert' = <<>>
    /\ refreshPending' = 0
    /\ appEvent' = [op |-> "pageLoad"]
    /\ UNCHANGED localStorage
    /\ AppOnly

\* The application is on screen and no modal dialog covers it.
Clickable == ~isLoadingAuth /\ route # "external" /\ ~DialogOpen

\* A link or button that navigates inside the application (never with a
\* next parameter).
navigate(r) ==
    /\ Clickable /\ r \in Routes
    /\ route' = r /\ nextPath' = DEFAULT_NEXT
    /\ psLoginOpen' = FALSE
    /\ raView' = Render(r, user, isLoadingAuth)
    /\ appEvent' = [op |-> "navigate"]
    /\ UNCHANGED <<authVars, localStorage, reloadPending, layoutLoginOpen,
                   checkoutPosts, checkoutPending, lastAlert>>
    /\ UNCHANGED refreshPending
    /\ AppOnly

\* Layout.handleLogin: the header shows "Log in" when there is no user.
handleLogin ==
    /\ Clickable /\ user = Null
    /\ layoutLoginOpen' = TRUE
    /\ appEvent' = [op |-> "handleLogin"]
    /\ UNCHANGED <<authVars, localStorage, route, nextPath, reloadPending, psLoginOpen,
                   raView, checkoutPosts, checkoutPending, lastAlert>>
    /\ UNCHANGED refreshPending
    /\ AppOnly

\* AuthProvider.login
loginNoPersist(email) ==
    /\ UNCHANGED localStorage
    /\ user' = UserOf(email)
    /\ isAuthenticated' = TRUE
login(email) ==
    /\ localStorage' = [localStorage EXCEPT ![LS_USER] = JSONstringify(UserOf(email))]
    /\ user' = UserOf(email)
    /\ isAuthenticated' = TRUE

\* LoginDialog.handleSubmit in Layout's, PlanSelection's or RequireAuth's
\* dialog; RequireAuth's onOpenChange leaves its dialog open.  The new user
\* runs Layout's effect, which starts refreshEntitlements(user, true).
loginDialogHandleSubmit(where, email) ==
    /\ ~isLoadingAuth /\ route # "external"
    /\ \/ where = "layout" /\ layoutLoginOpen
       \/ where = "plan" /\ psLoginOpen
       \/ where = "requireAuth" /\ raView = "signInRequired"
    /\ IF email # "" /\ includesAt(email)
       THEN /\ refreshPending < MaxRefresh
            /\ login(email)
            /\ refreshPending' = refreshPending + 1
            /\ layoutLoginOpen' = (IF where = "layout" THEN FALSE ELSE layoutLoginOpen)
            /\ psLoginOpen' = (IF where = "plan" THEN FALSE ELSE psLoginOpen)
            /\ raView' = Render(route, user', isLoadingAuth)
            /\ UNCHANGED lastAlert
       ELSE /\ lastAlert' = <<MSG_INVALID_EMAIL>>
            /\ UNCHANGED <<user, isAuthenticated, localStorage, layoutLoginOpen,
                           psLoginOpen, raView, refreshPending>>
    /\ appEvent' = [op |-> "loginDialogHandleSubmit", where |-> where, email |-> email]
    /\ UNCHANGED <<isLoadingAuth, route, nextPath, reloadPending, checkoutPosts,
                   checkoutPending>>
    /\ AppOnly

\* Escape or a click outside closes Layout's or PlanSelection's dialog.
closeLoginDialog(where) ==
    /\ ~isLoadingAuth /\ route # "external"
    /\ \/ where = "layout" /\ layoutLoginOpen /\ layoutLoginOpen' = FALSE
                           /\ UNCHANGED psLoginOpen
       \/ where = "plan" /\ psLoginOpen /\ psLoginOpen' = FALSE
                         /\ UNCHANGED layoutLoginOpen
    /\ appEvent' = [op |-> "closeLoginDialog"]
    /\ UNCHANGED <<authVars, localStorage, route, nextPath, reloadPending, raView,
                   checkoutPosts, checkoutPending, lastAlert>>
    /\ UNCHANGED refreshPending
    /\ AppOnly

\* Layout.handleLogout, AuthProvider.logout included: the keys are removed,
\* the user is cleared, the browser is told to load "/", and the router is
\* sent to /Home meanwhile.
handleLogout ==
    /\ Clickable /\ user # Null
    /\ localStorage' = removeItems(localStorage, LSKeys)
    /\ user' = Null /\ isAuthenticated' = FALSE
    /\ reloadPending' = TRUE
    /\ route' = "/Home" /\ nextPath' = DEFAULT_NEXT
    /\ psLoginOpen' = FALSE
    /\ raView' = Render("/Home", Null, isLoadingAuth)
    /\ appEvent' = [op |-> "handleLogout"]
    /\ UNCHANGED <<isLoadingAuth, layoutLoginOpen, checkoutPosts, checkoutPending,
                   lastAlert>>
    /\ UNCHANGED refreshPending
    /\ AppOnly

\* What the /v1/billing/me fetch of refreshEntitlements can come to.
RefreshOutcomes ==
    {[t |-> "thrown"]} \cup [t : {"response"}, ok : BOOLEAN, readable : BOOLEAN]

\* The rest of a silent refreshEntitlements call once its fetch has settled:
\* an OK response whose JSON reads is stored with the time of storing.  It
\* runs in the document that started it, whoever is signed in by then.
refreshEntitlements(o) ==
    /\ refreshPending > 0 /\ route # "external"
    /\ refreshPending' = refreshPending - 1
    /\ localStorage' = (IF o.t = "response" /\ o.ok /\ o.readable
                        THEN [localStorage EXCEPT ![LS_ENTITLEMENTS] = StoredEntitlements,
                                                  ![LS_ENTITLEMENTS_TIMESTAMP] = StoredTimestamp]
                        ELSE localStorage)
    /\ appEvent' = [op |-> "refreshEntitlements"]
    /\ UNCHANGED <<authVars, route, nextPath, reloadPending, layoutLoginOpen,
                   psLoginOpen, raView, checkoutPosts, checkoutPending, lastAlert>>
    /\ AppOnly

(***************************************************************************)
(* PlanSelection                                                           *)
(***************************************************************************)
\* What handleSelect does with a plan: the sign-in check comes first.
selectStepCommunityFirst(u, planId) ==
    IF planId = "community" THEN "navigate"
    ELSE IF u = Null \/ u.id = "" \/ u.email = "" THEN "login"
    ELSE "checkout"
selectStep(u, planId) ==
    IF u = Null \/ u.id = "" \/ u.email = "" THEN "login"
    ELSE IF planId = "community" THEN "navigate"
    ELSE "checkout"

CheckoutBody(planId) ==
    [url |-> CHECKOUT_URL, lookup_key |-> planId, user_id |-> user.id,
     user_email |-> user.email,
     success_url |-> <<"/BillingSuccess?session_id={CHECKOUT_SESSION_ID}&next=",
                       encodeURIComponent(nextPath)>>,
     cancel_url |-> "/PlanSelection?canceled=true"]

\* navigate(nextPath) from PlanSelection
goNextPath ==
    /\ route' = nextPath /\ nextPath' = DEFAULT_NEXT
    /\ raView' = Render(nextPath, user, isLoadingAuth)

\* handleSelect up to its fetch.
handleSelect(planId) ==
    /\ Clickable /\ route = PLAN_SELECTION
    /\ LET step == selectStep(user, planId) IN
       /\ step = "checkout" => Len(checkoutPosts) < MaxCheckouts
       /\ IF step = "login"
          THEN /\ psLoginOpen' = TRUE
               /\ UNCHANGED <<route, nextPath, raView, checkoutPosts, checkoutPending>>
          ELSE IF step = "navigate"
          THEN /\ goNextPath
               /\ UNCHANGED <<psLoginOpen, checkoutPosts, checkoutPending>>
          ELSE /\ checkoutPosts' = Append(checkoutPosts, CheckoutBody(planId))
               /\ checkoutPending' = checkoutPending + 1
               /\ UNCHANGED <<psLoginOpen, route, nextPath, raView>>
    /\ appEvent' = [op |-> "handleSelect", planId |-> planId,
                    posts |-> Len(checkoutPosts)]
    /\ UNCHANGED <<authVars, localStorage, reloadPending, layoutLoginOpen, lastAlert>>
    /\ UNCHANGED refreshPending
    /\ AppOnly

\* handleSelect from the answer of its fetch; it runs whatever the route is
\* by then.
checkoutResponse(o) ==
    /\ checkoutPending > 0 /\ route # "external" /\ ~isLoadingAuth
    /\ IF o.t = "throw"
       THEN /\ lastAlert' = <<MSG_PAYMENT_ERROR, MSG_FETCH_FAILED>>
            /\ checkoutPending' = checkoutPending - 1
            /\ UNCHANGED <<route, nextPath, raView, psLoginOpen, layoutLoginOpen>>
       ELSE IF ~o.read
       THEN /\ lastAlert' = <<MSG_PAYMENT_ERROR, MSG_BODY_UNREADABLE>>
            /\ checkoutPending' = checkoutPending - 1
            /\ UNCHANGED <<route, nextPath, raView, psLoginOpen, layoutLoginOpen>>
       ELSE IF ~(o.status >= 200 /\ o.status <= 299)
       THEN /\ lastAlert' = <<MSG_PAYMENT_ERROR,
                              IF o.error # "" THEN o.error ELSE "Checkout failed">>
            /\ checkoutPending' = checkoutPending - 1
            /\ UNCHANGED <<route, nextPath, raView, psLoginOpen, layoutLoginOpen>>
       ELSE IF o.url # ""
       THEN /\ route' = "external" /\ nextPath' = DEFAULT_NEXT
            /\ raView' = "notRendered"
            /\ psLoginOpen' = FALSE /\ layoutLoginOpen' = FALSE
            /\ checkoutPending' = 0
            /\ UNCHANGED lastAlert
       ELSE /\ lastAlert' = <<MSG_CHECKOUT_NO_URL>>
            /\ checkoutPending' = checkoutPending - 1
            /\ UNCHANGED <<route, nextPath, raView, psLoginOpen, layoutLoginOpen>>
    /\ appEvent' = [op |-> "checkoutResponse"]
    /\ UNCHANGED <<authVars, localStorage, reloadPending, checkoutPosts>>
    /\ UNCHANGED refreshPending
    /\ AppOnly

\* "Skip for now"
handleSkip ==
    /\ Clickable /\ route = PLAN_SELECTION
    /\ IF user = Null
       THEN /\ psLoginOpen' = TRUE
            /\ UNCHANGED <<route, nextPath, raView>>
       ELSE /\ goNextPath
            /\ UNCHANGED psLoginOpen
    /\ appEvent' = [op |-> "handleSkip", posts |-> Len(checkoutPosts)]
    /\ UNCHANGED <<authVars, localStorage, reloadPending, layoutLoginOpen,
                   checkoutPosts, checkoutPending, lastAlert>>
    /\ UNCHANGED refreshPending
    /\ AppOnly

NextApp ==
    \/ checkUserAuth
    \/ \E r \in Routes, np \in NextPaths : pageLoad(r, np)
    \/ \E r \in Routes : navigate(r)
    \/ handleLogin
    \/ \E where \in {"layout", "plan", "requireAuth"}, email \in TypedEmails :
          loginDialogHandleSubmit(where, email)
    \/ \E where \in {"layout", "plan"} : closeLoginDialog(where)
    \/ handleLogout
    \/ \E o \in RefreshOutcomes : refreshEntitlements(o)
    \/ \E planId \in PlanIds : handleSelect(planId)
    \/ \E o \in CheckoutOutcomes : checkoutResponse(o)
    \/ handleSkip

(***************************************************************************)
(* The application shell: the claims                                       *)
(***************************************************************************)
\* The keys logout is to leave empty.
SessionKeys == {LS_USER, LS_ENTITLEMENTS, LS_ENTITLEMENTS_TIMESTAMP}

\* C17: from a logout until the next sign-in or page load, localStorage holds
\* none of thermalai_user, thermalai_entitlements and
\* thermalai_entitlements_timestamp, also when a refreshEntitlements fetch that
\* was started before the logout is answered after it.
C17_LogoutLeavesNoSessionKeys ==
    (reloadPending /\ user = Null) => \A k \in SessionKeys : localStorage[k] = NoItem

\* C18: once the auth check of a page load has completed, through any sequence
\* of logins, logouts and reloads, isAuthenticated is true exactly when there
\* is a user, thermalai_user is stored exactly when there is a user, and the
\* user and the stored item are both {id: email, email: email} for the e-mail
\* of the last login.
C18_AuthStateConsistent ==
    ~isLoadingAuth =>
        /\ isAuthenticated <=> user # Null
        /\ localStorage[LS_USER] # NoItem <=> user # Null
        /\ user # Null =>
              /\ user = [id |-> user.email, email |-> user.email]
              /\ localStorage[LS_USER]
                    = [item |-> TRUE, json |-> <<"id", user.email, "email", user.email>>]
        /\ (appEvent.op = "loginDialogHandleSubmit" /\ user # Null) =>
              user.email = appEvent.email

\* After a logout, and before the reload it asked for, somebody else signed in.
C18_WitnessLoginAfterLogout ==
    /\ ~isLoadingAuth /\ reloadPending
    /\ appEvent.op = "loginDialogHandleSubmit" /\ appEvent.email = "bo@y.io"
    /\ user = [id |-> "bo@y.io", email |-> "bo@y.io"]
    /\ refreshPending = 1

NotSignedIn == user = Null \/ user.id = "" \/ user.email = ""

\* C7: authentication is required for all plans, including Community: when
\* no user with both id and email is signed in, PlanSelection.handleSelect
\* (for every plan id) and handleSkip open the login dialog and neither
\* navigate to the next path nor POST to /v1/billing/checkout.
C7_AuthRequiredForAllPlans ==
    (appEvent.op \in {"handleSelect", "handleSkip"} /\ NotSignedIn)
        => /\ psLoginOpen
           /\ route = PLAN_SELECTION
           /\ Len(checkoutPosts) = appEvent.posts

C7_WitnessCommunitySignedOut ==
    /\ appEvent.op = "handleSelect" /\ appEvent.planId = "community"
    /\ user = Null /\ psLoginOpen /\ route = PLAN_SELECTION

MaxTicks == 17
MaxInFlight == 2

TIMEOUT_MS == 15000
INTERVAL_MS == 1000

BILLING_ME_URL == "/v1/billing/me"
BS_DEFAULT_NEXT == "/NewAnalysis"
LAST_RESULT_KEY == "thermalai_last_result_payload"

\* The page's texts, with "..." for the ellipsis character and "[check mark]"
\* for the emoji.
STATUS_CONFIRMING == "Confirming your access..."
STATUS_RECEIVED == "Payment received [check mark]"
STATUS_PROCESSING == "Access is still processing..."
STATUS_UNLOCKED == "Access unlocked [check mark]"
DETAILS_FINALIZING == "Finalizing your access (this can take a few seconds)..."
DETAILS_PROCESSING == "Stripe confirmation may take a bit. You can continue; downloads should unlock shortly."
DETAILS_REDIRECTING == "Redirecting..."

\* searchParams.get("next") || "/NewAnalysis", and
\* String(next).toLowerCase().includes("results") on these values.
NextParams == {BS_DEFAULT_NEXT, "/Results"}
includesResults(next) == next = "/Results"

\* sessionStorage's last result payload: none, a saved payload, or text that
\* JSON.parse rejects.
SavedPayload == [item |-> TRUE, json |-> <<"result", "facade-1">>]
CorruptPayload == [item |-> TRUE, corrupt |-> TRUE]
SessionStorages == {NoItem, SavedPayload, CorruptPayload}

\* How long the immediate attempt may have taken, in ms.
ImmediateDelays == {0, 500, 16000}

\* What /v1/billing/me may say.
Entitlements ==
    {[downloads_allowed |-> FALSE, is_download_allowed |-> FALSE,
      isDownloadAllowed |-> FALSE, plan |-> "community"],
     [downloads_allowed |-> TRUE, is_download_allowed |-> FALSE,
      isDownloadAllowed |-> FALSE, plan |-> "community"],
     [downloads_allowed |-> FALSE, is_download_allowed |-> TRUE,
      isDownloadAllowed |-> FALSE, plan |-> "community"],
     [downloads_allowed |-> FALSE, is_download_allowed |-> FALSE,
      isDownloadAllowed |-> TRUE, plan |-> "community"]}
    \cup [downloads_allowed : {FALSE}, is_download_allowed : {FALSE},
          isDownloadAllowed : {FALSE},
          plan : {"vip", "enterprise", "project", "project_monthly"}]

\* One fetch of fetchBillingMe: it rejects, or answers not-OK, or OK with a
\* body that is unreadable, JSON null, or an entitlement object.
BillingMeOutcomes ==
    {[t |-> "throw"], [t |-> "resp", ok |-> FALSE],
     [t |-> "resp", ok |-> TRUE, read |-> FALSE]}
    \cup [t : {"resp"}, ok : {TRUE}, read : {TRUE}, ent : Entitlements \cup {Null}]

\* The fetch makes fetchBillingMe return (res.ok and a readable body).
Returns(o) == o.t = "resp" /\ o.ok /\ o.read

\* The test of the interval callback on what checkOnce returned.
unlocks(ent) ==
    /\ ent # Null
    /\ \/ ent.downloads_allowed \/ ent.is_download_allowed \/ ent.isDownloadAllowed
       \/ ent.plan \in {"vip", "enterprise", "project", "project_monthly"}

InitBSIdle ==
    /\ bsNext = BS_DEFAULT_NEXT /\ bsSaved = NoItem
    /\ bsPc = "notMounted" /\ cancelled = FALSE /\ intervalId = "null"
    /\ elapsed = 0 /\ tickCount = 0 /\ inflight1 = 0 /\ inflight2 = 0
    /\ bsStatus = STATUS_CONFIRMING /\ bsDetails = ""
    /\ bsNav = Null /\ polled = FALSE /\ accessSeen = FALSE
    /\ wentNext = FALSE /\ leftByUser = FALSE

BSOnly == UNCHANGED <<authVars, naVars, pxVars, epVars, appVars, aiVars, rsVars, egVars>>

\* goNext, and the unmount its navigation brings: the effect's cleanup sets
\* cancelled and clears the interval if there is one.
goNextTarget ==
    IF includesResults(bsNext) /\ bsSaved = SavedPayload
    THEN [to |-> "/Results", state |-> bsSaved.json]
    ELSE [to |-> bsNext]
cleanup(id) == IF id = "active" THEN "cleared" ELSE id
goNext ==
    /\ bsNav' = goNextTarget
    /\ wentNext' = TRUE
    /\ cancelled' = TRUE

\* run() up to its first await.
bsRun ==
    /\ bsPc = "mounted"
    /\ LET id == getUserIdentity(user) IN
       IF id.userId = "" \/ id.userEmail = ""
       THEN /\ bsNav' = [to |-> "/NewAnalysis"]
            /\ cancelled' = TRUE
            /\ bsPc' = "returned"
            /\ UNCHANGED <<bsStatus, bsDetails, polled>>
       ELSE /\ bsStatus' = STATUS_RECEIVED
            /\ bsDetails' = DETAILS_FINALIZING
            /\ bsPc' = "immediate1"
            /\ polled' = TRUE
            /\ UNCHANGED <<bsNav, cancelled>>
    /\ UNCHANGED <<bsNext, bsSaved, intervalId, elapsed, tickCount, inflight1, inflight2,
                   accessSeen, wentNext, leftByUser>>
    /\ BSOnly

\* The immediate attempt: a fetch of its fetchBillingMe is answered.  When
\* fetchBillingMe returns, run() sets the interval, whatever was returned and
\* whether or not the page is still mounted.
bsImmediate(o, d) ==
    /\ bsPc \in {"immediate1", "immediate2"}
    /\ IF Returns(o) \/ bsPc = "immediate2"
       THEN /\ intervalId' = "active"
            /\ elapsed' = d
            /\ bsPc' = "polling"
            /\ accessSeen' = (accessSeen \/ (Returns(o) /\ unlocks(o.ent)))
       ELSE /\ bsPc' = "immediate2"
            /\ UNCHANGED <<intervalId, elapsed, accessSeen>>
    /\ UNCHANGED <<bsNext, bsSaved, cancelled, tickCount, inflight1, inflight2, bsStatus,
                   bsDetails, bsNav, polled, wentNext, leftByUser>>
    /\ BSOnly

\* The interval fires, INTERVAL_MS after it was set or last fired.
intervalTick ==
    /\ intervalId = "active" /\ tickCount < MaxTicks
    /\ elapsed' = elapsed + INTERVAL_MS
    /\ tickCount' = tickCount + 1
    /\ IF cancelled
       THEN UNCHANGED <<intervalId, bsStatus, bsDetails, bsNav, wentNext, cancelled,
                        inflight1>>
       ELSE IF elapsed' > TIMEOUT_MS
       THEN /\ intervalId' = "cleared"
            /\ bsStatus' = STATUS_PROCESSING
            /\ bsDetails' = DETAILS_PROCESSING
            /\ goNext
            /\ UNCHANGED inflight1
       ELSE /\ inflight1 + inflight2 < MaxInFlight
            /\ inflight1' = inflight1 + 1
            /\ UNCHANGED <<intervalId, bsStatus, bsDetails, bsNav, wentNext, cancelled>>
    /\ UNCHANGED <<bsNext, bsSaved, bsPc, inflight2, polled, accessSeen, leftByUser>>
    /\ BSOnly

\* An interval callback's fetch is answered: the first fetch of its
\* fetchBillingMe (stage 1) or the second (stage 2).
tickFetch(stage, o) ==
    /\ IF stage = 1 THEN inflight1 > 0 ELSE inflight2 > 0
    /\ IF Returns(o) \/ stage = 2
       THEN /\ inflight1' = (IF stage = 1 THEN inflight1 - 1 ELSE inflight1)
            /\ inflight2' = (IF stage = 2 THEN inflight2 - 1 ELSE inflight2)
            /\ LET ent == IF Returns(o) THEN o.ent ELSE Null IN
               /\ accessSeen' = (accessSeen \/ unlocks(ent))
               /\ IF unlocks(ent)
                  THEN /\ intervalId' = cleanup(intervalId)
                       /\ bsStatus' = STATUS_UNLOCKED
                       /\ bsDetails' = DETAILS_REDIRECTING
                       /\ goNext
                  ELSE UNCHANGED <<intervalId, bsStatus, bsDetails, bsNav, wentNext,
                                   cancelled>>
       ELSE /\ inflight1' = inflight1 - 1
            /\ inflight2' = inflight2 + 1
            /\ UNCHANGED <<intervalId, bsStatus, bsDetails, bsNav, wentNext, cancelled,
                           accessSeen>>
    /\ UNCHANGED <<bsNext, bsSaved, bsPc, elapsed, tickCount, polled, leftByUser>>
    /\ BSOnly

\* The visitor leaves the page: "Continue", "Go to Results", or any other
\* navigation.  The effect's cleanup runs.
bsLeave(to) ==
    /\ bsPc \in {"immediate1", "immediate2", "polling"} /\ ~cancelled
    /\ bsNav' = [to |-> to]
    /\ cancelled' = TRUE
    /\ intervalId' = cleanup(intervalId)
    /\ leftByUser' = TRUE
    /\ UNCHANGED <<bsNext, bsSaved, bsPc, elapsed, tickCount, inflight1, inflight2,
                   bsStatus, bsDetails, polled, accessSeen, wentNext>>
    /\ BSOnly

NextBillingSuccess ==
    \/ bsRun
    \/ \E o \in BillingMeOutcomes, d \in ImmediateDelays : bsImmediate(o, d)
    \/ intervalTick
    \/ \E stage \in {1, 2}, o \in BillingMeOutcomes : tickFetch(stage, o)
    \/ \E to \in {bsNext, "/Results", "/Dashboard"} : bsLeave(to)

(***************************************************************************)
(* BillingSuccess: the claim                                               *)
(***************************************************************************)
\* C9: BillingSuccess polling always ends: mounted with an identified user,
\* the page polls /v1/billing/me until an entitlement response shows access
\* or more than 15 s have elapsed, and then clears the interval and navigates
\* on through goNext; with no identified user it navigates to /NewAnalysis
\* and never polls.  As a state predicate: once a response has shown access
\* the interval is no longer running and goNext has navigated, and without
\* an identity nothing was fetched and the page went to /NewAnalysis.
C9_PollingEndsOnAccess ==
    /\ accessSeen => (intervalId # "active" /\ wentNext)
    /\ (bsPc = "returned") => (~polled /\ bsNav = [to |-> "/NewAnalysis"])

\* Termination: an identified visitor who stays on the page is always sent on
\* by goNext with the interval cleared (given that fetches are answered and the
\* interval keeps firing), and without an identity nothing is ever fetched.
BS_PollingEnds ==
    /\ [](bsPc = "returned" => (~polled /\ bsNav = [to |-> "/NewAnalysis"]))
    /\ (bsPc = "immediate1") ~> (leftByUser \/ (intervalId = "cleared" /\ wentNext))

(***************************************************************************)
(* applyInvite (functions/applyInvite.ts)                                  *)
(***************************************************************************)
\* String.prototype.toLowerCase on the letters used here
lowerChar(c) ==
    CASE c = "B" -> "b" [] c = "V" -> "v" [] c = "E" -> "e" [] OTHER -> c
toLowerCase(s) == [i \in DOMAIN s |-> lowerChar(s[i])]

\* String.prototype.endsWith
endsWith(s, suffix) ==
    /\ Len(suffix) <= Len(s)
    /\ SubSeq(s, Len(s) - Len(suffix) + 1, Len(s)) = suffix

\* The base44 accounts that may call, by e-mail address.
EVE == <<"e", "v", "e", "@", "x", ".", "i", "o">>
BO == <<"B", "o", "@", "V", "i", "p", ".", "i", "o">>
AccountEmails == {EVE, BO}

\* The allowlists are source constants meant to be filled in; they ship
\* empty.  A deployment has one of these.
VipEmailLists == {{}, {<<"b", "o", "@", "v", "i", "p", ".", "i", "o">>}}
VipDomainLists == {{}, {<<"@", "V", "i", "p", ".", "i", "o">>}}

isVipEligible(email) ==
    IF email = <<>> THEN FALSE
    ELSE LET lowerEmail == toLowerCase(email) IN
         \/ \E vipEmail \in VIP_EMAILS : toLowerCase(vipEmail) = lowerEmail
         \/ \E domain \in VIP_DOMAINS : endsWith(lowerEmail, toLowerCase(domain))

\* base44.auth.me(): the caller's account, null, or a rejection.
MeOutcomes ==
    {[t |-> "throw"], [t |-> "null"]} \cup [t : {"user"}, email : AccountEmails]

\* req.json(): it rejects, or gives JSON null, or an object whose user_email
\* is "" when absent.
InviteBodies ==
    {[read |-> FALSE], [read |-> TRUE, json |-> Null]}
    \cup [read : {TRUE}, json : [user_email : {<<>>} \cup AccountEmails]]

\* base44.auth.updateMe
UpdateOutcomes == {"ok", "throw"}

MSG_UNAUTHORIZED == "Unauthorized"
MSG_NOT_ELIGIBLE == "Not eligible for VIP access"
MSG_GRANTED == "You've been granted full access."
MSG_ME_FAILED == "Request failed"
MSG_JSON_FAILED == "Unexpected end of JSON input"
MSG_NULL_BODY == "Cannot read properties of null (reading 'user_email')"
VIP_GRANTED_AT == "new Date().toISOString()"

NoProfile == [selected_plan |-> "community", vip_granted_at |-> ""]

InitAIIdle ==
    /\ VIP_EMAILS = {} /\ VIP_DOMAINS = {}
    /\ aiPc = "idle" /\ aiBody = Null /\ aiUser = Null
    /\ profiles = [e \in AccountEmails |-> NoProfile]
    /\ aiResponse = Null /\ aiUpdated = FALSE

AIOnly == UNCHANGED <<authVars, naVars, pxVars, epVars, appVars, bsVars, rsVars, egVars>>

\* A request arrives.
aiServe(body) ==
    /\ aiPc \in {"idle", "done"}
    /\ aiPc' = "me" /\ aiBody' = body
    /\ aiUser' = Null /\ aiResponse' = Null /\ aiUpdated' = FALSE
    /\ UNCHANGED <<VIP_EMAILS, VIP_DOMAINS, profiles>>
    /\ AIOnly

aiRespond(status, body) ==
    aiResponse' = [status |-> status, body |-> body] /\ aiPc' = "done"

\* The e-mail address the eligibility is decided on.
userEmail(body, me) ==
    IF body.json.user_email # <<>> THEN body.json.user_email ELSE me.email

\* From the answer of base44.auth.me() to the return or to updateMe.
aiMe(me) ==
    /\ aiPc = "me"
    /\ aiUser' = me
    /\ IF me.t = "throw"
       THEN aiRespond(500, [error |-> MSG_ME_FAILED, vip_granted |-> FALSE])
       ELSE IF me.t = "null"
       THEN aiRespond(401, [error |-> MSG_UNAUTHORIZED])
       ELSE IF ~aiBody.read
       THEN aiRespond(500, [error |-> MSG_JSON_FAILED, vip_granted |-> FALSE])
       ELSE IF aiBody.json = Null
       THEN aiRespond(500, [error |-> MSG_NULL_BODY, vip_granted |-> FALSE])
       ELSE IF ~isVipEligible(userEmail(aiBody, me))
       THEN aiRespond(200, [vip_granted |-> FALSE, message |-> MSG_NOT_ELIGIBLE])
       ELSE aiPc' = "updateMe" /\ UNCHANGED aiResponse
    /\ UNCHANGED <<VIP_EMAILS, VIP_DOMAINS, aiBody, profiles, aiUpdated>>
    /\ AIOnly

\* From the answer of base44.auth.updateMe to the return.
aiUpdateMe(o) ==
    /\ aiPc = "updateMe"
    /\ IF o = "ok"
       THEN /\ profiles' = [profiles EXCEPT ![aiUser.email] =
                               [selected_plan |-> "vip", vip_granted_at |-> VIP_GRANTED_AT]]
            /\ aiUpdated' = TRUE
            /\ aiRespond(200, [vip_granted |-> TRUE, plan |-> "vip", message |-> MSG_GRANTED])
       ELSE /\ aiRespond(500, [error |-> MSG_ME_FAILED, vip_granted |-> FALSE])
            /\ UNCHANGED <<profiles, aiUpdated>>
    /\ UNCHANGED <<VIP_EMAILS, VIP_DOMAINS, aiBody, aiUser>>
    /\ AIOnly

NextApplyInvite ==
    \/ \E body \in InviteBodies : aiServe(body)
    \/ \E me \in MeOutcomes : aiMe(me)
    \/ \E o \in UpdateOutcomes : aiUpdateMe(o)

MaxExports == 2

\* JavaScript objects are records; a property the object lacks is a field the
\* record lacks, and {} is the record with no field.
EmptyObject == [k \in {} |-> 0]

\* Payloads the page can be given through location.state.result or the saved
\* session item: the Dashboard's demo payload, an API payload whose report
\* names an api_base, a payload with no report, a payload with no raw.
DemoReport == [meta |-> [city |-> "Berlin, Germany"], headline |-> [key_driver |-> "wall"]]
ApiReport == [meta |-> [city |-> "Madrid", api_base |-> "http://localhost:8000"],
              headline |-> [key_driver |-> "window"]]
RawArtifacts == [artifacts |-> [rgb_image_base64_png |-> "rgb"]]
RawFromNewAnalysis == [meta |-> [api_base |-> ""]]
ResultPayloads ==
    {[report |-> DemoReport, raw |-> RawArtifacts],
     [report |-> ApiReport, raw |-> RawFromNewAnalysis],
     [raw |-> RawFromNewAnalysis, overlay_base64 |-> "png"],
     [report |-> DemoReport]}

\* const report = payload?.report || null
rsReport ==
    IF rsPayload # Null /\ "report" \in DOMAIN rsPayload THEN rsPayload.report ELSE Null
\* const meta = report?.meta || {}
rsMeta ==
    IF rsReport # Null /\ "meta" \in DOMAIN rsReport THEN rsReport.meta ELSE EmptyObject
\* const apiBase = meta?.api_base || ""
apiBase ==
    IF "api_base" \in DOMAIN rsMeta /\ rsMeta.api_base # "" THEN rsMeta.api_base ELSE ""

\* `${apiBase}/v1/report/ppt${format === 'pdf' ? '?format=pdf' : ''}`
exportEndpointAlwaysPdf(format) == apiBase \o "/v1/report/ppt" \o "?format=pdf"
exportEndpoint(format) ==
    apiBase \o "/v1/report/ppt" \o (IF format = "pdf" THEN "?format=pdf" ELSE "")

\* { report: payload.report || {}, raw: payload.raw || {} }; the payload is
\* JSON data, which JSON.stringify writes out whole.
exportBody ==
    [report |-> IF "report" \in DOMAIN rsPayload THEN rsPayload.report ELSE EmptyObject,
     raw |-> IF "raw" \in DOMAIN rsPayload THEN rsPayload.raw ELSE EmptyObject]

ExportFormats == {"pdf", "pptx"}

\* What the export fetch can come to: it throws, or a response arrives whose
\* body (text for an error, blob for the document) reads or fails to read.
ExportOutcomes ==
    {[t |-> "thrown"]}
    \cup {[t |-> "response", ok |-> TRUE, status |-> 200, readable |-> r, text |-> ""] :
             r \in BOOLEAN}
    \cup {[t |-> "response", ok |-> FALSE, status |-> 500, readable |-> r,
           text |-> "Internal Server Error"] : r \in BOOLEAN}

MSG_EXPORT_FAILED == "Failed to export. Is the backend running?"

InitRSIdle ==
    /\ rsPayload = Null
    /\ exportPosts = <<>> /\ exportPending = <<>>
    /\ rsAlerts = <<>> /\ rsDownloads = <<>>
    /\ rsCalls = <<>> /\ rsEvent = [op |-> "init"]

RSOnly == UNCHANGED <<authVars, naVars, pxVars, epVars, appVars, bsVars, aiVars, egVars>>

RemoveAt(s, i) == SubSeq(s, 1, i - 1) \o SubSeq(s, i + 1, Len(s))

\* handleExport(format) up to its await: the payload guard, then the fetch.
handleExport(format) ==
    /\ Len(rsCalls) < MaxExports
    /\ rsCalls' = Append(rsCalls, format)
    /\ IF rsPayload = Null
       THEN UNCHANGED <<exportPosts, exportPending>>
       ELSE /\ exportPosts' = Append(exportPosts,
                                     [url |-> exportEndpoint(format), method |-> "POST",
                                      contentType |-> "application/json",
                                      body |-> exportBody])
            /\ exportPending' = Append(exportPending, format)
    /\ rsEvent' = [op |-> "handleExport"]
    /\ UNCHANGED <<rsPayload, rsAlerts, rsDownloads>>
    /\ RSOnly

\* The rest of one handleExport call, once its fetch has settled.
exportSettled(i, o) ==
    /\ i \in 1..Len(exportPending)
    /\ exportPending' = RemoveAt(exportPending, i)
    /\ IF o.t = "thrown"
       THEN /\ rsAlerts' = Append(rsAlerts, <<MSG_EXPORT_FAILED>>)
            /\ UNCHANGED rsDownloads
       ELSE IF ~o.ok
       THEN /\ rsAlerts' = Append(rsAlerts, IF o.readable THEN <<"Export failed: ", o.text>>
                                            ELSE <<MSG_EXPORT_FAILED>>)
            /\ UNCHANGED rsDownloads
       ELSE IF o.readable
       THEN /\ rsDownloads' = Append(rsDownloads, "ThermalAI_Report." \o exportPending[i])
            /\ UNCHANGED rsAlerts
       ELSE /\ rsAlerts' = Append(rsAlerts, <<MSG_EXPORT_FAILED>>)
            /\ UNCHANGED rsDownloads
    /\ rsEvent' = [op |-> "exportSettled", outcome |-> o,
                   alerts |-> Len(rsAlerts), downloads |-> Len(rsDownloads)]
    /\ UNCHANGED <<rsPayload, exportPosts, rsCalls>>
    /\ RSOnly

NextResults ==
    \/ \E format \in ExportFormats : handleExport(format)
    \/ \E i \in 1..MaxExports, o \in ExportOutcomes : exportSettled(i, o)

(***************************************************************************)
(* Claims about Results.handleExport                                       *)
(***************************************************************************)
ExportFailed(o) == o.t = "thrown" \/ ~o.ok

\* C13 as stated: every export request's body holds the report and the raw of
\* the displayed payload themselves.
C13_AsStated ==
    \A i \in 1..Len(exportPosts) :
        /\ "report" \in DOMAIN rsPayload /\ exportPosts[i].body.report = rsPayload.report
        /\ "raw" \in DOMAIN rsPayload /\ exportPosts[i].body.raw = rsPayload.raw

\* C13: with no payload handleExport sends nothing; with a payload each call
\* sends one POST to {api_base}/v1/report/ppt, with ?format=pdf exactly for
\* format 'pdf', whose body holds the payload's report and raw, each replaced
\* by {} when the payload lacks it; a thrown fetch or a non-OK response adds
\* one alert and no download.
C13_ExportRequestAndFailure ==
    /\ rsPayload = Null => exportPosts = <<>>
    /\ rsPayload # Null =>
          /\ Len(exportPosts) = Len(rsCalls)
          /\ \A i \in 1..Len(exportPosts) :
                LET post == exportPosts[i]
                    base == IF "report" \in DOMAIN rsPayload
                               /\ "meta" \in DOMAIN rsPayload.report
                               /\ "api_base" \in DOMAIN rsPayload.report.meta
                            THEN rsPayload.report.meta.api_base ELSE ""
                IN /\ post.method = "POST"
                   /\ post.url = (IF rsCalls[i] = "pdf"
                                  THEN base \o "/v1/report/ppt?format=pdf"
                                  ELSE base \o "/v1/report/ppt")
                   /\ DOMAIN post.body = {"report", "raw"}
                   /\ \A k \in {"report", "raw"} :
                         post.body[k] = (IF k \in DOMAIN rsPayload THEN rsPayload[k]
                                         ELSE EmptyObject)
    /\ (rsEvent.op = "exportSettled" /\ ExportFailed(rsEvent.outcome)) =>
          /\ Len(rsAlerts) = rsEvent.alerts + 1
          /\ Len(rsDownloads) = rsEvent.downloads

\* A PowerPoint export of a payload with an api_base was answered 500: the
\* request went to the bare endpoint and an alert followed.
C13_WitnessFailedPptExport ==
    /\ rsPayload = [report |-> ApiReport, raw |-> RawFromNewAnalysis]
    /\ rsCalls = <<"pptx">>
    /\ exportPosts[1].url = "http://localhost:8000/v1/report/ppt"
    /\ rsEvent.op = "exportSettled" /\ rsEvent.outcome.t = "response"
    /\ ~rsEvent.outcome.ok
    /\ rsAlerts = <<<<"Export failed: ", "Internal Server Error">>>>
    /\ rsDownloads = <<>>

(***************************************************************************)
(* Heat-Loss Quantification Engine (the backend behind POST /analyze).     *)
(* The sources hold only its README and its Dockerfile entry point, so the *)
(* pipeline below follows the specification document: sections 4.1, 4.3,   *)
(* 4.4, 4.5, 4.6 and 7.  Areas are whole m2, powers whole W, and an annual *)
(* energy is the exact fraction num/den kWh, so that no rounding of the    *)
(* model stands in for the arithmetic of the engine.                       *)
(***************************************************************************)
Components == {"wall", "window", "door"}
SumOver(f) == f["wall"] + f["window"] + f["door"]

NoSplit == [given |-> FALSE]
NoFallback == [given |-> FALSE]
Split(wall, window, door) ==
    [given |-> TRUE, areas |-> [wall |-> wall, window |-> window, door |-> door]]

\* CalculationInputs: the facade area, the temperatures, the proxy coefficient
\* k and the U-values (configuration data), an optional manual area split and
\* an optional fallback climate value.
EngineInputs ==
    [facade_area_m2 : {0, 100}, t_inside : {22}, t_outside : {5}, k : {2},
     u_value : {[wall |-> 2, window |-> 5, door |-> 3]},
     manual_split : {NoSplit, Split(60, 30, 10), Split(70, 30, 1), Split(90, 40, 20)},
     fallback : {NoFallback, [given |-> TRUE, degree_hours |-> 50000, hdd |-> 2500]}]

\* InvalidInput: a missing or malformed required field.
validInputs(in) == in.facade_area_m2 > 0

\* segment(image): a mask, here its pixel counts per label together with each
\* component's representative surface temperature, or SegmentationError.
SegmentOutcomes ==
    {[ok |-> FALSE]}
    \cup {[ok |-> TRUE, pixels |-> [wall |-> 6, window |-> 3, door |-> 1],
           unlabeled |-> 0, background |-> 2,
           t_surface |-> [wall |-> 12, window |-> 15, door |-> 5]],
          [ok |-> TRUE, pixels |-> [wall |-> 4, window |-> 3, door |-> 0],
           unlabeled |-> 2, background |-> 0,
           t_surface |-> [wall |-> 10, window |-> 14, door |-> 5]]}

\* Without a mask the surface temperatures come from the thermal image alone.
MeanSurface == [wall |-> 11, window |-> 11, door |-> 11]

\* degreeHours(city, country): a profile, or none for an unrecognized pair.
ClimateOutcomes ==
    {[found |-> FALSE],
     [found |-> TRUE, degree_hours |-> 40000, hdd |-> 1800],
     [found |-> TRUE, degree_hours |-> 80000, hdd |-> 3600]}

\* 4.3: area_m2 = facade_area_total * (component_pixel_count /
\* total_foreground_pixel_count), the unlabeled remainder folded into wall.
pixelAreas(total, seg) ==
    LET fg == SumOver(seg.pixels) + seg.unlabeled
        count(c) == seg.pixels[c] + (IF c = "wall" THEN seg.unlabeled ELSE 0)
    IN [c \in Components |-> (total * count(c)) \div fg]

\* 4.3 and 7: the component area sum may exceed the facade area by 1%.
exceedsTolerance(areas, total) == SumOver(areas) * 100 > total * 101

\* 7, GeometryInconsistency: the areas are renormalized proportionally.
renormalizeNever(areas, total) == areas
renormalize(areas, total) ==
    IF exceedsTolerance(areas, total)
    THEN [c \in Components |-> (areas[c] * total) \div SumOver(areas)]
    ELSE areas

\* 4.4: Method A, P_w = k * area_m2 * (T_surface - T_outside);
\* Method B, P_w = U_component * area_m2 * (T_inside - T_outside).
powerA(in, area, t_surface) == in.k * area * (t_surface - in.t_outside)
powerB(in, c, area) == in.u_value[c] * area * (in.t_inside - in.t_outside)

\* 4.5: annual_kWh = P_w_per_degree * degree_hours / 1000 (Method A), and
\* U_component * area_m2 times HDD (degree-days, 24 h each) in kWh (Method B).
annualizeAWithBaseLoad(perDegree, degree_hours) ==
    [num |-> perDegree * degree_hours + 1000, den |-> 1000]
annualizeA(perDegree, degree_hours) == [num |-> perDegree * degree_hours, den |-> 1000]
annualizeB(perDegree, hdd) == [num |-> perDegree * hdd * 24, den |-> 1000]

\* 4.5 and 7: what the Report Assembler does with the climate lookup: use the
\* profile, fall back to the caller's value, or surface instantaneous figures
\* only.
climateDecisionFatal(in, lookup) ==
    IF lookup.found THEN [use |-> "profile", degree_hours |-> lookup.degree_hours,
                          hdd |-> lookup.hdd]
    ELSE IF in.fallback.given
    THEN [use |-> "fallback", degree_hours |-> in.fallback.degree_hours,
          hdd |-> in.fallback.hdd]
    ELSE [use |-> "fatal"]
climateDecision(in, lookup) ==
    IF lookup.found THEN [use |-> "profile", degree_hours |-> lookup.degree_hours,
                          hdd |-> lookup.hdd]
    ELSE IF in.fallback.given
    THEN [use |-> "fallback", degree_hours |-> in.fallback.degree_hours,
          hdd |-> in.fallback.hdd]
    ELSE [use |-> "instantaneous-only"]

NotAnnualized == [available |-> FALSE]

InitEGIdle ==
    /\ egPc = "idle" /\ egInputs = Null /\ egSeg = Null
    /\ egRawAreas = Null /\ egAreas = Null /\ egLoss = Null
    /\ egClimate = Null /\ egMeta = {} /\ egReport = Null /\ egError = NullStr

EGOnly == UNCHANGED <<authVars, naVars, pxVars, epVars, appVars, bsVars, aiVars, rsVars>>

\* InvalidInput rejects the request before anything is computed.
validate ==
    /\ egPc = "received"
    /\ IF validInputs(egInputs)
       THEN egPc' = "validated" /\ UNCHANGED egError
       ELSE egPc' = "failed" /\ egError' = "InvalidInput"
    /\ UNCHANGED <<egInputs, egSeg, egRawAreas, egAreas, egLoss, egClimate, egMeta, egReport>>
    /\ EGOnly

\* 4.1: segmentation; on SegmentationError the manual split is the fallback
\* when the caller supplied one, and the error is surfaced otherwise.
segment(outcome) ==
    /\ egPc = "validated"
    /\ egSeg' = outcome
    /\ IF outcome.ok
       THEN egPc' = "segmented" /\ UNCHANGED <<egMeta, egError>>
       ELSE IF egInputs.manual_split.given
       THEN egPc' = "segmented" /\ egMeta' = egMeta \cup {"SegmentationError"}
            /\ UNCHANGED egError
       ELSE egPc' = "failed" /\ egError' = "SegmentationError" /\ UNCHANGED egMeta
    /\ UNCHANGED <<egInputs, egRawAreas, egAreas, egLoss, egClimate, egReport>>
    /\ EGOnly

\* 4.3: the Geometry Resolver.
resolveGeometry ==
    /\ egPc = "segmented"
    /\ LET raw == IF egSeg.ok THEN pixelAreas(egInputs.facade_area_m2, egSeg)
                  ELSE egInputs.manual_split.areas
       IN /\ egRawAreas' = raw
          /\ egAreas' = renormalize(raw, egInputs.facade_area_m2)
          /\ egMeta' = (IF exceedsTolerance(raw, egInputs.facade_area_m2)
                        THEN egMeta \cup {"GeometryInconsistency"} ELSE egMeta)
    /\ egPc' = "resolved"
    /\ UNCHANGED <<egInputs, egSeg, egLoss, egClimate, egReport, egError>>
    /\ EGOnly

\* 4.4: the Heat-Loss Calculator, both methods for every component.
calculateHeatLoss ==
    /\ egPc = "resolved"
    /\ LET ts == IF egSeg.ok THEN egSeg.t_surface ELSE MeanSurface IN
       egLoss' = [c \in Components |->
                    [instantaneous_w_a |-> powerA(egInputs, egAreas[c], ts[c]),
                     instantaneous_w_b |-> powerB(egInputs, c, egAreas[c]),
                     per_degree_a |-> egInputs.k * egAreas[c],
                     per_degree_b |-> egInputs.u_value[c] * egAreas[c]]]
    /\ egPc' = "calculated"
    /\ UNCHANGED <<egInputs, egSeg, egRawAreas, egAreas, egClimate, egMeta, egReport, egError>>
    /\ EGOnly

\* 4.5 and 4.6: the climate lookup, the annualization and the Report.
assembleReport(lookup) ==
    /\ egPc = "calculated"
    /\ egClimate' = lookup
    /\ LET dec == climateDecision(egInputs, lookup) IN
       IF dec.use = "fatal"
       THEN /\ egPc' = "failed" /\ egError' = "ClimateDataUnavailable"
            /\ UNCHANGED <<egMeta, egReport>>
       ELSE /\ egPc' = "done"
            /\ egMeta' = egMeta \cup (IF lookup.found THEN {}
                                      ELSE {"ClimateDataUnavailable"})
            /\ egReport' =
                 [components |->
                    [c \in Components |->
                       [area_m2 |-> egAreas[c],
                        instantaneous_w_a |-> egLoss[c].instantaneous_w_a,
                        instantaneous_w_b |-> egLoss[c].instantaneous_w_b,
                        annual_kwh_a |->
                           IF dec.use = "instantaneous-only" THEN NotAnnualized
                           ELSE annualizeA(egLoss[c].per_degree_a, dec.degree_hours),
                        annual_kwh_b |->
                           IF dec.use = "instantaneous-only" THEN NotAnnualized
                           ELSE annualizeB(egLoss[c].per_degree_b, dec.hdd)]],
                  climate |-> dec.use]
            /\ UNCHANGED egError
    /\ UNCHANGED <<egInputs, egSeg, egRawAreas, egAreas, egLoss>>
    /\ EGOnly

NextEngine ==
    \/ validate
    \/ \E outcome \in SegmentOutcomes : segment(outcome)
    \/ resolveGeometry
    \/ calculateHeatLoss
    \/ \E lookup \in ClimateOutcomes : assembleReport(lookup)

(***************************************************************************)
(* Claims about the engine                                                 *)
(***************************************************************************)
\* C14: the component areas of every Report sum to at most facade_area_total
\* * 1.01; a raw sum beyond that tolerance does not abort the request: the
\* areas are scaled down in proportion and the Report carries the warning.
C14_AreaSumWithinTolerance ==
    /\ egPc = "done" =>
          (egReport.components["wall"].area_m2 + egReport.components["window"].area_m2
             + egReport.components["door"].area_m2) * 100 <= egInputs.facade_area_m2 * 101
    /\ (egRawAreas # Null
        /\ SumOver(egRawAreas) * 100 > egInputs.facade_area_m2 * 101) =>
          /\ egError = NullStr /\ egPc # "failed"
          /\ "GeometryInconsistency" \in egMeta
          /\ \A c \in Components :
                /\ egAreas[c] * SumOver(egRawAreas) <= egRawAreas[c] * egInputs.facade_area_m2
                /\ (egAreas[c] + 1) * SumOver(egRawAreas)
                      > egRawAreas[c] * egInputs.facade_area_m2

\* A manual split of 150 m2 on a 100 m2 facade went through to a Report.
C14_WitnessRenormalized ==
    /\ egPc = "done"
    /\ egRawAreas = [wall |-> 90, window |-> 40, door |-> 20]
    /\ egAreas = [wall |-> 60, window |-> 26, door |-> 13]
    /\ egReport.components["wall"].area_m2 = 60

\* C15: with no climate data for the city and no fallback value the request
\* does not fail: the Report holds the instantaneous figures of both methods,
\* no annual figure, and ClimateDataUnavailable among its metadata.
C15_ClimateUnavailableIsNotFatal ==
    (egClimate # Null /\ ~egClimate.found /\ ~egInputs.fallback.given) =>
        /\ egPc = "done" /\ egError = NullStr
        /\ "ClimateDataUnavailable" \in egMeta
        /\ \A c \in Components :
              /\ egReport.components[c].instantaneous_w_a = egLoss[c].instantaneous_w_a
              /\ egReport.components[c].instantaneous_w_b = egLoss[c].instantaneous_w_b
              /\ egReport.components[c].annual_kwh_a = NotAnnualized
              /\ egReport.components[c].annual_kwh_b = NotAnnualized

\* The lookup found nothing, there was no fallback, and the Report shows a
\* nonzero instantaneous loss.
C15_WitnessInstantaneousOnly ==
    /\ egPc = "done"
    /\ ~egClimate.found /\ ~egInputs.fallback.given
    /\ egReport.components["wall"].instantaneous_w_a > 0
    /\ egReport.climate = "instantaneous-only"

\* C16: the annual energy of a Report is linear in the climate value: with the
\* same per-degree loss, twice the degree-hours (Method A) or twice the HDD
\* (Method B) gives exactly twice the annual_kWh.
C16_AnnualizationLinear ==
    (egPc = "done" /\ egReport.climate # "instantaneous-only") =>
        LET dec == IF egClimate.found THEN egClimate ELSE egInputs.fallback IN
        \A c \in Components :
            LET a1 == egReport.components[c].annual_kwh_a
                a2 == annualizeA(egLoss[c].per_degree_a, 2 * dec.degree_hours)
                b1 == egReport.components[c].annual_kwh_b
                b2 == annualizeB(egLoss[c].per_degree_b, 2 * dec.hdd)
            IN /\ a2.den = a1.den /\ a2.num = 2 * a1.num
               /\ b2.den = b1.den /\ b2.num = 2 * b1.num

\* Two climates, one with twice the degree-hours of the other, both annualized.
C16_WitnessAnnualized ==
    /\ egPc = "done"
    /\ egClimate = [found |-> TRUE, degree_hours |-> 80000, hdd |-> 3600]
    /\ egReport.components["wall"].annual_kwh_a =
          [num |-> 2 * (egLoss["wall"].per_degree_a * 40000), den |-> 1000]
    /\ egLoss["wall"].per_degree_a > 0

(***************************************************************************)
(* Specifications                                                          *)
(***************************************************************************)
\* The route is rendered once AuthenticatedApp has seen isLoadingAuth = false.
InitNewAnalysis ==
    /\ user \in {Null, UserOf("ana@x.io")}
    /\ isAuthenticated = (user # Null)
    /\ isLoadingAuth = FALSE
    /\ InitNAIdle
    /\ InitPxIdle
    /\ InitEPIdle
    /\ InitAppIdle
    /\ InitBSIdle
    /\ InitAIIdle /\ InitRSIdle /\ InitEGIdle

SpecNewAnalysis == InitNewAnalysis /\ [][NextNewAnalysis]_vars

InitProxy ==
    /\ pxEnv \in PxEnvs
    /\ pxPc = "idle" /\ pxReq = Null /\ apiFormData = {}
    /\ upstream = <<>> /\ attempts = <<>> /\ pxResponse = Null
    /\ InitAuthIdle /\ InitNAIdle /\ InitEPIdle /\ InitAppIdle /\ InitBSIdle /\ InitAIIdle /\ InitRSIdle /\ InitEGIdle

SpecProxy == InitProxy /\ [][NextProxy]_vars

\* The page as mounted; it neither reads nor writes the auth state.
InitExpertPreview ==
    /\ InitEPIdle /\ InitAuthIdle /\ InitNAIdle /\ InitPxIdle /\ InitAppIdle
    /\ InitBSIdle /\ InitAIIdle /\ InitRSIdle /\ InitEGIdle

SpecExpertPreview == InitExpertPreview /\ [][NextExpertPreview]_vars

\* The browser has just loaded the application at some route, with whatever an
\* earlier visit left in localStorage.
InitApp ==
    /\ InitAuthIdle
    /\ localStorage \in Storages
    /\ route \in Routes
    /\ nextPath \in (IF route = PLAN_SELECTION THEN NextPaths ELSE {DEFAULT_NEXT})
    /\ reloadPending = FALSE
    /\ layoutLoginOpen = FALSE /\ psLoginOpen = FALSE /\ raView = "notRendered"
    /\ checkoutPosts = <<>> /\ checkoutPending = 0
    /\ lastAlert = <<>> /\ appEvent = [op |-> "init"] /\ refreshPending = 0
    /\ InitNAIdle /\ InitPxIdle /\ InitEPIdle /\ InitBSIdle /\ InitAIIdle /\ InitRSIdle /\ InitEGIdle

SpecApp == InitApp /\ [][NextApp]_vars

\* The route has just been rendered (AuthenticatedApp has seen isLoadingAuth =
\* false) and the effect is about to run.
InitBillingSuccess ==
    /\ user \in {Null, UserOf("ana@x.io")}
    /\ isAuthenticated = (user # Null)
    /\ isLoadingAuth = FALSE
    /\ bsNext \in NextParams /\ bsSaved \in SessionStorages
    /\ bsPc = "mounted" /\ cancelled = FALSE /\ intervalId = "null"
    /\ elapsed = 0 /\ tickCount = 0 /\ inflight1 = 0 /\ inflight2 = 0
    /\ bsStatus = STATUS_CONFIRMING /\ bsDetails = ""
    /\ bsNav = Null /\ polled = FALSE /\ accessSeen = FALSE
    /\ wentNext = FALSE /\ leftByUser = FALSE
    /\ InitNAIdle /\ InitPxIdle /\ InitEPIdle /\ InitAppIdle /\ InitAIIdle /\ InitRSIdle /\ InitEGIdle

SpecBillingSuccess == InitBillingSuccess /\ [][NextBillingSuccess]_vars

\* Every fetch is answered or rejected in the end, and a running interval
\* keeps firing.
SpecBillingSuccessFair ==
    /\ SpecBillingSuccess
    /\ WF_vars(\E o \in BillingMeOutcomes, d \in ImmediateDelays : bsImmediate(o, d))
    /\ WF_vars(intervalTick)
    /\ WF_vars(\E stage \in {1, 2}, o \in BillingMeOutcomes : tickFetch(stage, o))

\* A deployment with its allowlists, before any request.
InitApplyInvite ==
    /\ VIP_EMAILS \in VipEmailLists /\ VIP_DOMAINS \in VipDomainLists
    /\ aiPc = "idle" /\ aiBody = Null /\ aiUser = Null
    /\ profiles = [e \in AccountEmails |-> NoProfile]
    /\ aiResponse = Null /\ aiUpdated = FALSE
    /\ InitAuthIdle /\ InitNAIdle /\ InitPxIdle /\ InitEPIdle /\ InitAppIdle /\ InitBSIdle
    /\ InitRSIdle /\ InitEGIdle

SpecApplyInvite == InitApplyInvite /\ [][NextApplyInvite]_vars

\* The page as rendered with the payload it was given, or with none.
InitResults ==
    /\ rsPayload \in ResultPayloads \cup {Null}
    /\ exportPosts = <<>> /\ exportPending = <<>>
    /\ rsAlerts = <<>> /\ rsDownloads = <<>>
    /\ rsCalls = <<>> /\ rsEvent = [op |-> "init"]
    /\ InitAuthIdle /\ InitNAIdle /\ InitPxIdle /\ InitEPIdle /\ InitAppIdle /\ InitBSIdle
    /\ InitAIIdle /\ InitEGIdle

SpecResults == InitResults /\ [][NextResults]_vars

\* A request has been received with its inputs.
InitEngine ==
    /\ egPc = "received" /\ egInputs \in EngineInputs /\ egSeg = Null
    /\ egRawAreas = Null /\ egAreas = Null /\ egLoss = Null
    /\ egClimate = Null /\ egMeta = {} /\ egReport = Null /\ egError = NullStr
    /\ InitAuthIdle /\ InitNAIdle /\ InitPxIdle /\ InitEPIdle /\ InitAppIdle /\ InitBSIdle
    /\ InitAIIdle /\ InitRSIdle

SpecEngine == InitEngine /\ [][NextEngine]_vars

====
